---- MODULE Spec2Model ----
(***************************************************************************)
(* Model of the wayback change-detection pipeline of de-extinction         *)
(* (src/wayback_scraper.py): the snapshot sampler, the shingle distance    *)
(* and the diff analyzer.                                                  *)
(***************************************************************************)
EXTENDS Integers, Sequences, FiniteSets, TLC

VARIABLES
    pc,         \* position of the modelled run
    mode,       \* SAMPLING, the process-wide sampling granularity
    snaps,      \* listing returned by list_snapshots: sequence of <<timestamp, archive_url>>
    sampled,    \* sample_snapshots(snaps, mode)
    resampled,  \* sample_snapshots(sampled, mode)
    text_a,     \* first argument of cosine_distance
    text_b,     \* second argument of cosine_distance
    dist,       \* results of cosine_distance on the two texts
    index_df,   \* the snapshot index: sequence of snapshot records, in row order
    files,      \* the text files on disk: text_path -> content
    diffs_df,   \* the diff table written by DiffAnalyzer.run
    changes_df, \* the significant-change table written by DiffAnalyzer.run
    kw_in,      \* keyword deltas handed to _calculate_change_magnitude
    metrics,    \* result of _calculate_change_magnitude
    mag_in,     \* argument of _categorize_change_magnitude
    category,   \* result of _categorize_change_magnitude
    counts,     \* result of _keyword_counts
    csv,        \* data/index.csv: [state, rows]
    html_files, \* the markup files on disk: set of html paths
    data_exists,\* first result of check_existing_data: "unchecked", "True" or "False"
    paths_left, \* paths WaybackCollector.run has still to visit
    todo,       \* sampled snapshots of the current path still to download
    rows,       \* records collected so far by WaybackCollector.run
    listed,     \* listing requests issued, in order
    attempts,   \* download requests issued, in order
    tl_a,       \* tagline mapping of the earlier snapshot
    tl_b,       \* tagline mapping of the later snapshot
    tl_cmp,     \* result of _compare_taglines
    record,     \* the fields of a diff record that two texts determine
    norm_in,    \* argument of _normalize_whitespace
    norm_out,   \* result of _normalize_whitespace
    trend_df,   \* keyword-trend table of DiffAnalyzer.run
    magnitude_df, \* magnitude time series of DiffAnalyzer.run
    reports     \* the files of REPORT_DIR: name -> who wrote it

vars == <<pc, mode, snaps, sampled, resampled, text_a, text_b, dist,
          index_df, files, diffs_df, changes_df,
          kw_in, metrics, mag_in, category, counts,
          csv, html_files, data_exists, paths_left, todo, rows, listed, attempts,
          tl_a, tl_b, tl_cmp, record, norm_in, norm_out, trend_df, magnitude_df, reports>>

\* the variables of the scoring functions
scoringVars == <<kw_in, metrics, mag_in, category, counts>>

\* the variables of the sampler, of the distance and of the analyzer
samplerVars == <<mode, snaps, sampled, resampled>>

analyzerVars == <<index_df, files, diffs_df, changes_df>>

\* the variables of main and of the collector
pipelineVars == <<csv, html_files, data_exists, paths_left, todo, rows, listed, attempts>>

\* the variables of the unit runs of _compare_taglines, the _pairwise body
\* and _normalize_whitespace
detailVars == <<tl_a, tl_b, tl_cmp, record, norm_in, norm_out>>

\* what DiffAnalyzer.run leaves besides the diff tables
reportVars == <<trend_df, magnitude_df, reports>>

\* the report files run can write
ReportFiles ==
    {"wayback_diffs.csv", "wayback_changes_significant.csv", "keyword_trends.csv",
     "magnitude_timeseries.csv", "magnitude_monthly.csv", "wayback_changes_summary.md"}

DetailIdle ==
    /\ tl_a = <<>>
    /\ tl_b = <<>>
    /\ tl_cmp = <<>>
    /\ record = <<>>
    /\ norm_in = <<>>
    /\ norm_out = <<>>

\* no analysis has run: REPORT_DIR is empty
ReportIdle ==
    /\ trend_df = <<>>
    /\ magnitude_df = <<>>
    /\ reports = [f \in ReportFiles |-> "absent"]

\* main has not been started
PipelineIdle ==
    /\ csv = [state |-> "absent", rows |-> <<>>]
    /\ html_files = {}
    /\ data_exists = "unchecked"
    /\ paths_left = <<>>
    /\ todo = <<>>
    /\ rows = <<>>
    /\ listed = <<>>
    /\ attempts = <<>>

\* ------------------------------------------------------------------------
\* Bounds
\* ------------------------------------------------------------------------
MaxSnaps == 3   \* longest snapshot listing explored

MaxTextLen == 4 \* longest text handed to cosine_distance on its own

MaxRows == 3    \* most rows of the snapshot index

\* ------------------------------------------------------------------------
\* Generic helpers (Python built-ins used by the code)
\* ------------------------------------------------------------------------
Min2(x, y) == IF x <= y THEN x ELSE y

Max2(x, y) == IF x >= y THEN x ELSE y

\* Python's < on str / tuple: lexicographic order (digits and ints compare alike)
LexLess(s, t) ==
    \/ \E i \in 1..Min2(Len(s), Len(t)) :
          /\ \A j \in 1..(i - 1) : s[j] = t[j]
          /\ s[i] < t[i]
    \/ /\ Len(s) < Len(t)
       /\ \A j \in 1..Len(s) : s[j] = t[j]

\* int("dddd"): decimal value of a digit string
RECURSIVE ParseInt(_)
ParseInt(ds) ==
    IF Len(ds) = 0 THEN 0
    ELSE 10 * ParseInt(SubSeq(ds, 1, Len(ds) - 1)) + ds[Len(ds)]

\* s[:n]
Prefix(s, n) == SubSeq(s, 1, Min2(n, Len(s)))

\* sorted(pairs, key=first component): stable insertion of one <<key, value>> pair
RECURSIVE InsertByKey(_, _)
InsertByKey(sortedPairs, p) ==
    IF sortedPairs = <<>> THEN <<p>>
    ELSE IF LexLess(p[1], Head(sortedPairs)[1])
         THEN <<p>> \o sortedPairs
         ELSE <<Head(sortedPairs)>> \o InsertByKey(Tail(sortedPairs), p)

RECURSIVE SortedByKey(_)
SortedByKey(pairs) ==
    IF pairs = <<>> THEN <<>>
    ELSE InsertByKey(SortedByKey(SubSeq(pairs, 1, Len(pairs) - 1)), pairs[Len(pairs)])

Values(pairs) == [i \in 1..Len(pairs) |-> pairs[i][2]]

Range(f) == {f[i] : i \in DOMAIN f}

Abs(x) == IF x < 0 THEN -x ELSE x

\* Python floats of the scores, held as exact fractions <<numerator, denominator>>
RECURSIVE GCD(_, _)
GCD(x, y) == IF y = 0 THEN x ELSE GCD(y, x % y)

Rat(n, d) ==
    LET g == GCD(Abs(n), Abs(d))
    IN  IF d < 0 THEN <<(-n) \div g, (-d) \div g>> ELSE <<n \div g, d \div g>>

RatZero == <<0, 1>>

RatOne == <<1, 1>>

RatAdd(x, y) == Rat(x[1] * y[2] + y[1] * x[2], x[2] * y[2])

RatSub(x, y) == Rat(x[1] * y[2] - y[1] * x[2], x[2] * y[2])

RatMul(x, y) == Rat(x[1] * y[1], x[2] * y[2])

RatLeq(x, y) == x[1] * y[2] <= y[1] * x[2]

RatLess(x, y) == x[1] * y[2] < y[1] * x[2]

\* mutant: the cap is dropped
RatMinUncapped(x, y) == x

RatMin(x, y) == IF RatLeq(x, y) THEN x ELSE y

\* ------------------------------------------------------------------------
\* Snapshot listing entries
\* ------------------------------------------------------------------------
\* YYYYMMDDHHMMSS timestamps as digit strings
T20210115 == <<2,0,2,1, 0,1, 1,5, 0,0,0,0,0,0>>
T20210120 == <<2,0,2,1, 0,1, 2,0, 0,0,0,0,0,0>>
T20210310 == <<2,0,2,1, 0,3, 1,0, 0,0,0,0,0,0>>
T20211105 == <<2,0,2,1, 1,1, 0,5, 0,0,0,0,0,0>>
T20220201 == <<2,0,2,2, 0,2, 0,1, 0,0,0,0,0,0>>

Timestamps == {T20210115, T20210120, T20210310, T20211105, T20220201}

ArchiveUrls == {"u1", "u2"}

Modes == {"all", "yearly", "quarterly", "monthly"}

\* ------------------------------------------------------------------------
\* Snapshot sampler
\* ------------------------------------------------------------------------
\* quarter_key: f"{y}-Q{q}", held as the pair <<y, q>> it formats
quarter_key(ts) ==
    LET y == ParseInt(SubSeq(ts, 1, 4))
        m == ParseInt(SubSeq(ts, 5, 6))
        q == ((m - 1) \div 3) + 1
    IN  <<y, q>>

\* the dictionary key each sampling loop computes for a timestamp
BucketKey(m, ts) ==
    CASE m = "yearly"    -> Prefix(ts, 4)
      [] m = "quarterly" -> quarter_key(ts)
      [] m = "monthly"   -> Prefix(ts, 6)
      [] OTHER           -> <<>>

KeysOf(chosen) == {chosen[i][1] : i \in 1..Len(chosen)}

\* mutant: a later entry of a bucket replaces the one already chosen
ChosenPutLast(chosen, k, entry) ==
    IF k \in KeysOf(chosen)
    THEN [i \in 1..Len(chosen) |->
            IF chosen[i][1] = k THEN <<k, entry>> ELSE chosen[i]]
    ELSE Append(chosen, <<k, entry>>)

\* "if k not in chosen: chosen[k] = (ts, url)"; chosen is the insertion-ordered dict
ChosenPut(chosen, k, entry) ==
    IF k \in KeysOf(chosen) THEN chosen ELSE Append(chosen, <<k, entry>>)

\* "for ts, url in snaps: ..." of one sampling mode
RECURSIVE ChosenLoop(_, _)
ChosenLoop(listing, m) ==
    IF listing = <<>> THEN <<>>
    ELSE LET last == listing[Len(listing)]
         IN  ChosenPut(ChosenLoop(SubSeq(listing, 1, Len(listing) - 1), m),
                       BucketKey(m, last[1]), last)

\* sort_key of the quarterly branch
sort_key(x) ==
    <<ParseInt(SubSeq(x[1], 1, 4)), ((ParseInt(SubSeq(x[1], 5, 6)) - 1) \div 3) + 1>>

\* mutant: chosen entries returned in dictionary (insertion) order
EmitUnsorted(chosen, m) == Values(chosen)

\* mutant: chosen entries returned newest-inserted first, without sorting
EmitReversed(chosen, m) == [i \in 1..Len(chosen) |-> chosen[Len(chosen) + 1 - i][2]]

\* "[chosen[y] for y in sorted(chosen)]" / "sorted(chosen.values(), key=sort_key)"
EmitSorted(chosen, m) ==
    IF m = "quarterly"
    THEN Values(SortedByKey([i \in 1..Len(chosen) |->
                                <<sort_key(chosen[i][2]), chosen[i][2]>>]))
    ELSE Values(SortedByKey(chosen))

\* mutant: mode "all" also keeps one entry per year
sample_all_as_yearly(listing, m) ==
    IF m \in {"all", "yearly"} THEN EmitSorted(ChosenLoop(listing, "yearly"), "yearly")
    ELSE EmitSorted(ChosenLoop(listing, m), m)

sample_snapshots(listing, m) ==
    IF m = "all" THEN listing
    ELSE IF m \in {"yearly", "quarterly", "monthly"}
         THEN EmitSorted(ChosenLoop(listing, m), m)
         ELSE listing

\* ------------------------------------------------------------------------
\* Sampler run: list -> sample -> sample again
\* ------------------------------------------------------------------------
InitSampler ==
    /\ pc = "listing"
    /\ mode \in Modes
    /\ snaps = <<>>
    /\ sampled = <<>>
    /\ resampled = <<>>
    /\ text_a = <<>>
    /\ text_b = <<>>
    /\ dist = <<>>
    /\ index_df = <<>>
    /\ files = <<>>
    /\ diffs_df = <<>>
    /\ changes_df = <<>>
    /\ kw_in = <<>>
    /\ metrics = <<>>
    /\ mag_in = <<>>
    /\ category = ""
    /\ counts = <<>>
    /\ DetailIdle
    /\ ReportIdle
    /\ PipelineIdle

\* list_snapshots appends one (timestamp, archive_url) the archive yields
ListSnapshot ==
    /\ pc = "listing"
    /\ Len(snaps) < MaxSnaps
    /\ \E ts \in Timestamps, url \in ArchiveUrls :
          snaps' = Append(snaps, <<ts, url>>)
    /\ UNCHANGED <<pc, mode, sampled, resampled, text_a, text_b,
                 dist, index_df, files, diffs_df, changes_df, scoringVars, pipelineVars,
                   detailVars, reportVars>>

SampleSnapshots ==
    /\ pc = "listing"
    /\ sampled' = sample_snapshots(snaps, mode)
    /\ pc' = "sampled"
    /\ UNCHANGED <<mode, snaps, resampled, text_a, text_b,
                 dist, index_df, files, diffs_df, changes_df, scoringVars, pipelineVars,
                   detailVars, reportVars>>

ResampleSnapshots ==
    /\ pc = "sampled"
    /\ resampled' = sample_snapshots(sampled, mode)
    /\ pc' = "resampled"
    /\ UNCHANGED <<mode, snaps, sampled, text_a, text_b,
                 dist, index_df, files, diffs_df, changes_df, scoringVars, pipelineVars,
                   detailVars, reportVars>>

NextSampler == ListSnapshot \/ SampleSnapshots \/ ResampleSnapshots

SpecSampler == InitSampler /\ [][NextSampler]_vars

\* ------------------------------------------------------------------------
\* Sampler properties
\* ------------------------------------------------------------------------
SamplerDone == pc \in {"sampled", "resampled"}

Bucketed == mode \in {"yearly", "quarterly", "monthly"}

\* the bucket of a timestamp as the specification words it: the year, the
\* year and quarter, or the year and month, as a chronological ordinal
BucketOrdinal(m, ts) ==
    LET y  == ParseInt(SubSeq(ts, 1, 4))
        mo == ParseInt(SubSeq(ts, 5, 6))
    IN  CASE m = "yearly"    -> y
          [] m = "quarterly" -> 4 * y + ((mo - 1) \div 3)
          [] m = "monthly"   -> 12 * y + (mo - 1)
          [] OTHER           -> 0

InputBuckets == {BucketOrdinal(mode, snaps[j][1]) : j \in 1..Len(snaps)}

\* C1: in yearly, quarterly or monthly mode every returned entry carries the
\* smallest timestamp among all input entries of its bucket.
C1_EarliestOfBucket ==
    (SamplerDone /\ Bucketed) =>
        \A i \in 1..Len(sampled) : \A j \in 1..Len(snaps) :
            BucketOrdinal(mode, snaps[j][1]) = BucketOrdinal(mode, sampled[i][1])
                => ~LexLess(snaps[j][1], sampled[i][1])

\* C2: in yearly, quarterly or monthly mode the result holds exactly one
\* entry for each distinct bucket of the input and nothing else, every entry
\* is an input entry, and the entries are in ascending bucket order.
C2_OnePerBucketAscending ==
    (SamplerDone /\ Bucketed) =>
        /\ \A b \in InputBuckets :
              Cardinality({i \in 1..Len(sampled) :
                              BucketOrdinal(mode, sampled[i][1]) = b}) = 1
        /\ \A i \in 1..Len(sampled) : \E j \in 1..Len(snaps) : sampled[i] = snaps[j]
        /\ Len(sampled) = Cardinality(InputBuckets)
        /\ \A i \in 1..Len(sampled) : \A k \in 1..Len(sampled) :
              i < k => BucketOrdinal(mode, sampled[i][1]) < BucketOrdinal(mode, sampled[k][1])

\* C2 witness: an unordered listing with two entries in one bucket and a
\* second bucket that arrives out of chronological order has been sampled
C2_Witness ==
    /\ pc = "sampled" /\ Bucketed
    /\ Len(sampled) >= 2
    /\ Len(sampled) < Len(snaps)
    /\ \E j \in 1..(Len(snaps) - 1) :
          BucketOrdinal(mode, snaps[j + 1][1]) < BucketOrdinal(mode, snaps[j][1])

\* C3: sampling an already sampled listing with the same mode returns it
\* unchanged (same entries, same order).
C3_Idempotent == pc = "resampled" => resampled = sampled

\* C3 witness: a listing that the first sampling shortened and reordered
\* has been sampled twice
C3_Witness ==
    /\ pc = "resampled" /\ Bucketed
    /\ Len(sampled) >= 2
    /\ Len(sampled) < Len(snaps)
    /\ sampled # SubSeq(snaps, 1, Len(sampled))

\* C4: with mode all the listing is returned unchanged: same entries, same
\* multiplicity, same order.
C4_AllReturnsInput == (SamplerDone /\ mode = "all") => sampled = snaps

\* C4 witness: an unordered listing with a repeated entry went through mode all
C4_Witness ==
    /\ pc = "sampled" /\ mode = "all"
    /\ \E j \in 1..Len(snaps) : \E k \in 1..Len(snaps) : j < k /\ snaps[j] = snaps[k]
    /\ \E j \in 1..(Len(snaps) - 1) : LexLess(snaps[j + 1][1], snaps[j][1])

\* first position of the listing that carries timestamp ts
FirstWithTimestamp(ts) ==
    CHOOSE j \in 1..Len(snaps) :
        /\ snaps[j][1] = ts
        /\ \A k \in 1..(j - 1) : snaps[k][1] # ts

\* C5: when several input entries carry the timestamp of a returned entry,
\* the returned entry is the one of them that comes first in the input,
\* never a later duplicate.
C5_FirstOfEqualTimestamps ==
    (SamplerDone /\ Bucketed) =>
        \A i \in 1..Len(sampled) :
            sampled[i] = snaps[FirstWithTimestamp(sampled[i][1])]

\* C5 witness: two entries with one timestamp and different locations were
\* listed, and the sampler returned the earlier of the two
C5_Witness ==
    /\ pc = "sampled" /\ Bucketed
    /\ \E j \in 1..Len(snaps) : \E k \in 1..Len(snaps) :
          /\ j < k
          /\ snaps[j][1] = snaps[k][1]
          /\ snaps[j][2] # snaps[k][2]
          /\ \E i \in 1..Len(sampled) : sampled[i] = snaps[j]

\* ------------------------------------------------------------------------
\* Text and shingle distance
\* ------------------------------------------------------------------------
\* a text is a sequence of one-character strings
Whitespace == {" ", "\n", "\t"}

\* str.lower() on the ASCII letters
UpperLetters ==
    <<"A", "B", "C", "D", "E", "F", "G", "H", "I", "J", "K", "L", "M",
      "N", "O", "P", "Q", "R", "S", "T", "U", "V", "W", "X", "Y", "Z">>

LowerLetters ==
    <<"a", "b", "c", "d", "e", "f", "g", "h", "i", "j", "k", "l", "m",
      "n", "o", "p", "q", "r", "s", "t", "u", "v", "w", "x", "y", "z">>

UpperToLower ==
    [c \in Range(UpperLetters) |->
        LowerLetters[CHOOSE i \in 1..Len(UpperLetters) : UpperLetters[i] = c]]

LowerChar(c) == IF c \in DOMAIN UpperToLower THEN UpperToLower[c] ELSE c

Lower(s) == [i \in 1..Len(s) |-> LowerChar(s[i])]

\* re.sub(r"\s+", " ", s): every maximal whitespace run becomes one space
CollapseWhitespace(s) ==
    LET kept == SelectSeq([i \in 1..Len(s) |-> i],
                          LAMBDA i : s[i] \notin Whitespace
                                     \/ i = 1 \/ s[i - 1] \notin Whitespace)
    IN  [n \in 1..Len(kept) |-> IF s[kept[n]] \in Whitespace THEN " " ELSE s[kept[n]]]

\* mutant: two-character shingles
shingles_bigram(s, n) ==
    LET t == CollapseWhitespace(Lower(s))
    IN  [i \in 1..Max2(Len(t) - 1, 0) |-> SubSeq(t, i, i + 1)]

\* shingles(s, n): the list of overlapping n-grams of the normalised text
shingles(s, n) ==
    LET t == CollapseWhitespace(Lower(s))
    IN  [i \in 1..Max2(Len(t) - n + 1, 0) |-> SubSeq(t, i, i + n - 1)]

\* mutant: overlap measured against the first text's shingles only
cosine_distance_containment(a, b) ==
    LET set_a == Range(shingles(a, 3))
        set_b == Range(shingles(b, 3))
    IN  IF set_a = {} /\ set_b = {} THEN RatZero
        ELSE IF set_a = {} THEN RatOne
        ELSE RatSub(RatOne, Rat(Cardinality(set_a \cap set_b), Cardinality(set_a)))

cosine_distance(a, b) ==
    LET A == shingles(a, 3)
        B == shingles(b, 3)
    IN  IF A = <<>> /\ B = <<>> THEN RatZero
        ELSE LET set_a == Range(A)
                 set_b == Range(B)
                 intersection == Cardinality(set_a \cap set_b)
                 union == Cardinality(set_a \cup set_b)
                 jaccard == IF union > 0 THEN Rat(intersection, union) ELSE RatZero
             IN  IF set_a = {} /\ set_b = {} THEN RatZero
                 ELSE RatSub(RatOne, jaccard)

\* ------------------------------------------------------------------------
\* Distance run: two texts are typed, then measured in both directions
\* ------------------------------------------------------------------------
TextChars == {"a", "A", " "}

InitDistance ==
    /\ pc = "typing"
    /\ mode = "all"
    /\ snaps = <<>>
    /\ sampled = <<>>
    /\ resampled = <<>>
    /\ text_a = <<>>
    /\ text_b = <<>>
    /\ dist = <<>>
    /\ index_df = <<>>
    /\ files = <<>>
    /\ diffs_df = <<>>
    /\ changes_df = <<>>
    /\ kw_in = <<>>
    /\ metrics = <<>>
    /\ mag_in = <<>>
    /\ category = ""
    /\ counts = <<>>
    /\ DetailIdle
    /\ ReportIdle
    /\ PipelineIdle

TypeA ==
    /\ pc = "typing"
    /\ Len(text_a) < MaxTextLen
    /\ \E c \in TextChars : text_a' = Append(text_a, c)
    /\ UNCHANGED <<pc, mode, snaps, sampled, resampled, text_b,
                 dist, index_df, files, diffs_df, changes_df, scoringVars, pipelineVars,
                   detailVars, reportVars>>

TypeB ==
    /\ pc = "typing"
    /\ Len(text_b) < MaxTextLen
    /\ \E c \in TextChars : text_b' = Append(text_b, c)
    /\ UNCHANGED <<pc, mode, snaps, sampled, resampled, text_a,
                 dist, index_df, files, diffs_df, changes_df, scoringVars, pipelineVars,
                   detailVars, reportVars>>

Measure ==
    /\ pc = "typing"
    /\ dist' = [ab |-> cosine_distance(text_a, text_b),
                ba |-> cosine_distance(text_b, text_a),
                aa |-> cosine_distance(text_a, text_a)]
    /\ pc' = "measured"
    /\ UNCHANGED <<mode, snaps, sampled, resampled, text_a,
                 text_b, index_df, files, diffs_df, changes_df, scoringVars, pipelineVars,
                   detailVars, reportVars>>

NextDistance == TypeA \/ TypeB \/ Measure

SpecDistance == InitDistance /\ [][NextDistance]_vars

\* ------------------------------------------------------------------------
\* Distance properties
\* ------------------------------------------------------------------------
\* C6: the distance is symmetric, zero between a text and itself, and lies
\* in [0, 1], for all texts including empty ones and ones under 3 characters.
C6_SymmetricBounded ==
    pc = "measured" =>
        /\ dist.ab = dist.ba
        /\ dist.aa = RatZero
        /\ RatLeq(RatZero, dist.ab) /\ RatLeq(dist.ab, RatOne)

\* C6 witness: two different texts that share some but not all shingles were
\* measured
C6_Witness ==
    /\ pc = "measured"
    /\ Len(text_a) > Len(text_b)
    /\ RatLess(RatZero, dist.ab) /\ RatLess(dist.ab, RatOne)

\* S(x): the set of 3-character substrings of the lower-cased,
\* whitespace-collapsed text
ShingleSet(x) ==
    LET t == CollapseWhitespace(Lower(x))
    IN  {SubSeq(t, i, i + 2) : i \in 1..(Len(t) - 2)}

TextBringBack1 ==
    <<"[", "S", "O", "U", "R", "C", "E", "]", " ", "u", "1", "\n", "[", "H", "1", "]", " ",
      "B", "r", "i", "n", "g", " ", "b", "a", "c", "k", " ", "t", "h", "e", " ", "m", "a",
      "m", "m", "o", "t", "h">>

\* '[SOURCE] u2\n[H1] Bring back the mammoth'
TextBringBack2 ==
    <<"[", "S", "O", "U", "R", "C", "E", "]", " ", "u", "2", "\n", "[", "H", "1", "]", " ",
      "B", "r", "i", "n", "g", " ", "b", "a", "c", "k", " ", "t", "h", "e", " ", "m", "a",
      "m", "m", "o", "t", "h">>

\* '[SOURCE] u1\n[H1] Reviving the mammoth ecosystem'
TextReviving ==
    <<"[", "S", "O", "U", "R", "C", "E", "]", " ", "u", "1", "\n", "[", "H", "1", "]", " ",
      "R", "e", "v", "i", "v", "i", "n", "g", " ", "t", "h", "e", " ", "m", "a", "m", "m",
      "o", "t", "h", " ", "e", "c", "o", "s", "y", "s", "t", "e", "m">>

\* '[SOURCE] u1\n[H1] Bring back the mammoth\n[P] De-extinction and climate change'
TextTwoLines ==
    <<"[", "S", "O", "U", "R", "C", "E", "]", " ", "u", "1", "\n", "[", "H", "1", "]", " ",
      "B", "r", "i", "n", "g", " ", "b", "a", "c", "k", " ", "t", "h", "e", " ", "m", "a",
      "m", "m", "o", "t", "h", "\n", "[", "P", "]", " ", "D", "e", "-", "e", "x", "t", "i",
      "n", "c", "t", "i", "o", "n", " ", "a", "n", "d", " ", "c", "l", "i", "m", "a", "t",
      "e", " ", "c", "h", "a", "n", "g", "e">>

\* '[SOURCE] u1': a page without extractable content
TextSourceOnly ==
    <<"[", "S", "O", "U", "R", "C", "E", "]", " ", "u", "1">>

\* '[SOURCE] u1\n\n[P] Zoo'
TextZoo ==
    <<"[", "S", "O", "U", "R", "C", "E", "]", " ", "u", "1", "\n", "\n", "[", "P", "]",
      " ", "Z", "o", "o">>

\* '[SOURCE] u1\n\n[H1] Bring back bird'
TextBird ==
    <<"[", "S", "O", "U", "R", "C", "E", "]", " ", "u", "1", "\n", "\n", "[", "H", "1",
      "]", " ", "B", "r", "i", "n", "g", " ", "b", "a", "c", "k", " ", "b", "i", "r",
      "d">>

\* '[SOURCE] u2\n\n[H1] Bring back birds'
TextBirds ==
    <<"[", "S", "O", "U", "R", "C", "E", "]", " ", "u", "2", "\n", "\n", "[", "H", "1",
      "]", " ", "B", "r", "i", "n", "g", " ", "b", "a", "c", "k", " ", "b", "i", "r",
      "d", "s">>

\* the marker html_to_text puts before the fetch URL
SourceMarker == <<"[", "S", "O", "U", "R", "C", "E", "]">>

\* KEYWORDS: category -> phrases (the phrases of two categories that the
\* modelled documents can contain)
KeywordCategories == <<"de_extinction", "climate_benefit">>

KEYWORDS ==
    [k \in Range(KeywordCategories) |->
        IF k = "de_extinction"
        THEN <<
        <<"d", "e", "-", "e", "x", "t", "i", "n", "c", "t", "i", "o", "n">>,
        <<"d", "e", " ", "e", "x", "t", "i", "n", "c", "t", "i", "o", "n">>,
        <<"d", "e", "-", "e", "x", "t", "i", "n", "c", "t">>,
        <<"e", "x", "t", "i", "n", "c", "t">>,
        <<"e", "x", "t", "i", "n", "c", "t", "i", "o", "n">>,
        <<"r", "e", "v", "i", "v", "i", "n", "g">>,
        <<"b", "r", "i", "n", "g", " ", "b", "a", "c", "k">> >>
        ELSE <<
        <<"c", "l", "i", "m", "a", "t", "e">>,
        <<"c", "l", "i", "m", "a", "t", "e", " ", "c", "h", "a", "n", "g", "e">>,
        <<"e", "c", "o", "s", "y", "s", "t", "e", "m">> >>]

\* ------------------------------------------------------------------------
\* String helpers of the analyzer
\* ------------------------------------------------------------------------
RECURSIVE SumSeq(_)
SumSeq(q) == IF q = <<>> THEN 0 ELSE Head(q) + SumSeq(Tail(q))

\* str.startswith
StartsWith(s, prefix) ==
    Len(s) >= Len(prefix) /\ SubSeq(s, 1, Len(prefix)) = prefix

\* str.splitlines() for texts whose only line break is "\n"
RECURSIVE SplitLines(_)
SplitLines(s) ==
    IF s = <<>> THEN <<>>
    ELSE IF \E i \in 1..Len(s) : s[i] = "\n"
         THEN LET i == CHOOSE k \in 1..Len(s) :
                          s[k] = "\n" /\ \A j \in 1..(k - 1) : s[j] # "\n"
              IN  <<SubSeq(s, 1, i - 1)>> \o SplitLines(SubSeq(s, i + 1, Len(s)))
         ELSE <<s>>

\* "\n".join(lines)
RECURSIVE JoinLines(_)
JoinLines(lines) ==
    IF lines = <<>> THEN <<>>
    ELSE IF Len(lines) = 1 THEN lines[1]
         ELSE lines[1] \o <<"\n">> \o JoinLines(Tail(lines))

\* str.strip()
RECURSIVE Strip(_)
Strip(s) ==
    IF s = <<>> THEN <<>>
    ELSE IF s[1] \in Whitespace THEN Strip(Tail(s))
    ELSE IF s[Len(s)] \in Whitespace THEN Strip(SubSeq(s, 1, Len(s) - 1))
    ELSE s

\* mutant: the texts are compared with their [SOURCE] lines left in
CleanKeepSource(text) == JoinLines(SplitLines(text))

\* "\n".join([line for line in A.splitlines() if not line.startswith("[SOURCE]")])
Clean(text) ==
    JoinLines(SelectSeq(SplitLines(text), LAMBDA line : ~StartsWith(line, SourceMarker)))

\* ------------------------------------------------------------------------
\* Keyword counter
\* ------------------------------------------------------------------------
Digits == {"0", "1", "2", "3", "4", "5", "6", "7", "8", "9"}

\* \w of the regular expressions
WordChars == Range(UpperLetters) \cup Range(LowerLetters) \cup Digits \cup {"_"}

IsWordAt(t, i) == i >= 1 /\ i <= Len(t) /\ t[i] \in WordChars

\* \b between t[i] and t[i + 1]
BoundaryAfter(t, i) == IsWordAt(t, i) # IsWordAt(t, i + 1)

\* r"\b" + re.escape(w) + r"\b" matches at position i of t
MatchAt(t, w, i) ==
    /\ i + Len(w) - 1 <= Len(t)
    /\ SubSeq(t, i, i + Len(w) - 1) = w
    /\ BoundaryAfter(t, i - 1)
    /\ BoundaryAfter(t, i + Len(w) - 1)

\* len(re.findall(...)): leftmost matches, the scan resuming after each match
RECURSIVE NonOverlapping(_, _, _)
NonOverlapping(starts, width, from) ==
    IF starts = <<>> THEN 0
    ELSE IF Head(starts) < from THEN NonOverlapping(Tail(starts), width, from)
    ELSE 1 + NonOverlapping(Tail(starts), width, Head(starts) + width)

\* mutant: the phrase is counted wherever it occurs, inside longer words too
FindallCountInsideWords(t, w) ==
    NonOverlapping(SelectSeq([i \in 1..Len(t) |-> i],
                             LAMBDA i : i + Len(w) - 1 <= Len(t)
                                        /\ SubSeq(t, i, i + Len(w) - 1) = w),
                   Len(w), 1)

FindallCount(t, w) ==
    NonOverlapping(SelectSeq([i \in 1..Len(t) |-> i], LAMBDA i : MatchAt(t, w, i)),
                   Len(w), 1)

_keyword_counts(text) ==
    LET text_l == Lower(text)
    IN  [k \in DOMAIN KEYWORDS |->
            SumSeq([n \in 1..Len(KEYWORDS[k]) |->
                        FindallCount(text_l, Lower(KEYWORDS[k][n]))])]

\* ------------------------------------------------------------------------
\* difflib.unified_diff on two lists of lines (indices as in Python: a[i:j])
\* ------------------------------------------------------------------------
\* SequenceMatcher.find_longest_match without junk: the longest common block,
\* the earliest in a, then the earliest in b; <<alo, blo, 0>> when none
FindLongestMatch(a, b, alo, ahi, blo, bhi) ==
    LET cand == {c \in (alo..(ahi - 1)) \X (blo..(bhi - 1)) \X (1..Max2(ahi - alo, 0)) :
                    /\ c[1] + c[3] <= ahi
                    /\ c[2] + c[3] <= bhi
                    /\ \A t \in 1..c[3] : a[c[1] + t] = b[c[2] + t]}
    IN  IF cand = {} THEN <<alo, blo, 0>>
        ELSE CHOOSE c \in cand : \A o \in cand :
                \/ c[3] > o[3]
                \/ c[3] = o[3] /\ c[1] < o[1]
                \/ c[3] = o[3] /\ c[1] = o[1] /\ c[2] <= o[2]

\* SequenceMatcher.get_matching_blocks, in ascending order
RECURSIVE MatchingBlocks(_, _, _, _, _, _)
MatchingBlocks(a, b, alo, ahi, blo, bhi) ==
    LET m == FindLongestMatch(a, b, alo, ahi, blo, bhi)
        i == m[1]
        j == m[2]
        k == m[3]
    IN  IF k = 0 THEN <<>>
        ELSE (IF alo < i /\ blo < j THEN MatchingBlocks(a, b, alo, i, blo, j) ELSE <<>>)
             \o <<m>>
             \o (IF i + k < ahi /\ j + k < bhi
                 THEN MatchingBlocks(a, b, i + k, ahi, j + k, bhi) ELSE <<>>)

Tagged(tag, lines, lo, hi) == [n \in 1..Max2(hi - lo, 0) |-> <<tag, lines[lo + n]>>]

\* get_opcodes, line by line: removed lines, added lines, then the equal block
RECURSIVE OpcodeLines(_, _, _, _, _)
OpcodeLines(a, b, blocks, i, j) ==
    IF blocks = <<>> THEN <<>>
    ELSE LET ai == Head(blocks)[1]
             bj == Head(blocks)[2]
             size == Head(blocks)[3]
         IN  Tagged("-", a, i, ai) \o Tagged("+", b, j, bj)
             \o Tagged(" ", a, ai, ai + size)
             \o OpcodeLines(a, b, Tail(blocks), ai + size, bj + size)

\* get_grouped_opcodes(n): an unchanged line is shown when it is among the
\* n lines after a change or the n lines before one
ContextKept(tl, p, n) ==
    LET s == CHOOSE x \in 1..p : (\A y \in x..p : tl[y][1] = " ")
                                 /\ (x = 1 \/ tl[x - 1][1] # " ")
        e == CHOOSE x \in p..Len(tl) : (\A y \in p..x : tl[y][1] = " ")
                                       /\ (x = Len(tl) \/ tl[x + 1][1] # " ")
    IN  \/ s > 1 /\ p - s + 1 <= n
        \/ e < Len(tl) /\ e - p + 1 <= n

LineKept(tl, p, n) == tl[p][1] # " " \/ ContextKept(tl, p, n)

HunkHeader == <<"@", "@", " ", "range", " ", "@", "@", "\n">>

RECURSIVE HunkLines(_, _, _)
HunkLines(tl, p, n) ==
    IF p > Len(tl) THEN <<>>
    ELSE IF ~LineKept(tl, p, n) THEN HunkLines(tl, p + 1, n)
    ELSE (IF p = 1 \/ ~LineKept(tl, p - 1, n) THEN <<HunkHeader>> ELSE <<>>)
         \o << <<tl[p][1]>> \o tl[p][2] >>
         \o HunkLines(tl, p + 1, n)

\* difflib.unified_diff(a, b, fromfile, tofile, n); the file names are kept
\* as one token each
unified_diff(a, b, n) ==
    LET blocks == MatchingBlocks(a, b, 0, Len(a), 0, Len(b)) \o << <<Len(a), Len(b), 0>> >>
        tl == OpcodeLines(a, b, blocks, 0, 0)
    IN  IF \A p \in 1..Len(tl) : tl[p][1] = " " THEN <<>>
        ELSE << <<"-", "-", "-", " ", "fromfile", "\n">>,
                <<"+", "+", "+", " ", "tofile", "\n">> >>
             \o HunkLines(tl, 1, n)

\* ------------------------------------------------------------------------
\* Change magnitude
\* ------------------------------------------------------------------------
SnippetCap == 300

\* floor(x * 10^digits) and the remainder, by long division
RECURSIVE ScaledFloor(_, _, _)
ScaledFloor(n, d, digits) ==
    IF digits = 0 THEN <<n \div d, n % d>>
    ELSE LET prev == ScaledFloor(n, d, digits - 1)
         IN  <<prev[1] * 10 + ((prev[2] * 10) \div d), (prev[2] * 10) % d>>

\* round(x, 4) of a non-negative score: to the nearest 1/10000, ties to even
Round4(x) ==
    LET qr == ScaledFloor(x[1], x[2], 4)
        q == qr[1]
        r == qr[2]
        up == (2 * r > x[2]) \/ (2 * r = x[2] /\ q % 2 = 1)
    IN  Rat(IF up THEN q + 1 ELSE q, 10000)

\* mutant: every band boundary excluded
_categorize_exclusive(magnitude) ==
    IF RatLess(Rat(8, 10), magnitude) THEN "Major"
    ELSE IF RatLess(Rat(6, 10), magnitude) THEN "Substantial"
    ELSE IF RatLess(Rat(4, 10), magnitude) THEN "Moderate"
    ELSE IF RatLess(Rat(2, 10), magnitude) THEN "Minor"
    ELSE "Minimal"

_categorize_change_magnitude(magnitude) ==
    IF RatLeq(Rat(8, 10), magnitude) THEN "Major"
    ELSE IF RatLeq(Rat(6, 10), magnitude) THEN "Substantial"
    ELSE IF RatLeq(Rat(4, 10), magnitude) THEN "Moderate"
    ELSE IF RatLeq(Rat(2, 10), magnitude) THEN "Minor"
    ELSE "Minimal"

\* sum(1 for line in diff_lines if line.startswith(("+", "-")))
DiffChangeLines(diff_lines) ==
    Cardinality({p \in 1..Len(diff_lines) :
                    StartsWith(diff_lines[p], <<"+">>) \/ StartsWith(diff_lines[p], <<"-">>)})

\* sum(1 for line in diff_lines if line.startswith("+") and not line.startswith("+++"))
Additions(diff_lines) ==
    Cardinality({p \in 1..Len(diff_lines) :
                    /\ StartsWith(diff_lines[p], <<"+">>)
                    /\ ~StartsWith(diff_lines[p], <<"+", "+", "+">>)})

\* sum(1 for line in diff_lines if line.startswith("-") and not line.startswith("---"))
Deletions(diff_lines) ==
    Cardinality({p \in 1..Len(diff_lines) :
                    /\ StartsWith(diff_lines[p], <<"-">>)
                    /\ ~StartsWith(diff_lines[p], <<"-", "-", "-">>)})

\* mutant: the weights of the similarity and the diff density are exchanged
CombinedMagnitudeSwapped(similarity_score, char_change_ratio, diff_density, kw_change_intensity, structural_score) ==
    RatAdd(RatAdd(RatAdd(RatAdd(
        RatMul(similarity_score, Rat(25, 100)),
        RatMul(char_change_ratio, Rat(20, 100))),
        RatMul(diff_density, Rat(30, 100))),
        RatMul(kw_change_intensity, Rat(15, 100))),
        RatMul(structural_score, Rat(10, 100)))

\* "combined_magnitude = similarity_score * 0.3 + char_change_ratio * 0.2
\*  + diff_density * 0.25 + kw_change_intensity * 0.15 + structural_score * 0.1"
CombinedMagnitude(similarity_score, char_change_ratio, diff_density, kw_change_intensity, structural_score) ==
    RatAdd(RatAdd(RatAdd(RatAdd(
        RatMul(similarity_score, Rat(30, 100)),
        RatMul(char_change_ratio, Rat(20, 100))),
        RatMul(diff_density, Rat(25, 100))),
        RatMul(kw_change_intensity, Rat(15, 100))),
        RatMul(structural_score, Rat(10, 100)))

_calculate_change_magnitude(A_clean, B_clean, diff_lines, kw_delta) ==
    LET similarity_score == RatSub(RatOne, cosine_distance(A_clean, B_clean))
        len_a == Len(A_clean)
        len_b == Len(B_clean)
        \* avg_len = (len_a + len_b) / 2, or 1 when both are empty
        char_change_ratio ==
            RatMin(IF len_a + len_b > 0
                   THEN Rat(2 * Abs(len_b - len_a), len_a + len_b)
                   ELSE Rat(Abs(len_b - len_a), 1),
                   RatOne)
        total_lines == Len(SplitLines(A_clean)) + Len(SplitLines(B_clean))
        diff_change_lines == DiffChangeLines(diff_lines)
        diff_density == RatMin(Rat(diff_change_lines, Max2(total_lines, 1)), RatOne)
        total_kw_changes ==
            SumSeq([n \in 1..Len(KeywordCategories) |-> Abs(kw_delta[KeywordCategories[n]])])
        total_kw_baseline == total_kw_changes + 10
        kw_change_intensity == RatMin(Rat(total_kw_changes, total_kw_baseline), RatOne)
        additions == Additions(diff_lines)
        deletions == Deletions(diff_lines)
        structural_changes == additions + deletions
        max_possible_changes ==
            Max2(Max2(Len(SplitLines(A_clean)), Len(SplitLines(B_clean))), 1)
        structural_score == RatMin(Rat(structural_changes, max_possible_changes), RatOne)
        combined_magnitude ==
            CombinedMagnitude(similarity_score, char_change_ratio, diff_density,
                              kw_change_intensity, structural_score)
    IN  [similarity_score  |-> Round4(similarity_score),
         char_change_ratio |-> Round4(char_change_ratio),
         diff_density      |-> Round4(diff_density),
         keyword_intensity |-> Round4(kw_change_intensity),
         structural_score  |-> Round4(structural_score),
         magnitude_score   |-> Round4(combined_magnitude),
         change_category   |-> _categorize_change_magnitude(combined_magnitude)]

\* ------------------------------------------------------------------------
\* Pairwise comparison of two loaded texts
\* ------------------------------------------------------------------------
\* the "+"/"-" lines kept in the excerpt: stripped content longer than 5
IsMeaningful(line) ==
    \/ StartsWith(line, <<"-", "-", "-">>)
    \/ StartsWith(line, <<"+", "+", "+">>)
    \/ StartsWith(line, <<"@", "@">>)
    \/ StartsWith(line, <<" ">>)
    \/ /\ StartsWith(line, <<"+">>) \/ StartsWith(line, <<"-">>)
       /\ Len(Strip(Tail(line))) > 5

\* mutant: the keyword delta is the earlier count minus the later count
CompareTextsEarlierMinusLater(A, B) ==
    LET A_clean == Clean(A)
        B_clean == Clean(B)
        d == cosine_distance(A_clean, B_clean)
        kwA == _keyword_counts(A_clean)
        kwB == _keyword_counts(B_clean)
        kw_delta == [k \in DOMAIN kwA |-> kwA[k] - kwB[k]]
        diff_lines == unified_diff(SplitLines(A_clean), SplitLines(B_clean), 3)
        meaningful_diff_lines == SelectSeq(diff_lines, IsMeaningful)
        snippet == JoinLines(SubSeq(meaningful_diff_lines, 1,
                                    Min2(SnippetCap, Len(meaningful_diff_lines))))
    IN  [cosine_distance   |-> Round4(d),
         from_chars        |-> Len(A_clean),
         to_chars          |-> Len(B_clean),
         char_change       |-> Len(B_clean) - Len(A_clean),
         delta             |-> kw_delta,
         diff_snippet      |-> snippet]
            @@ _calculate_change_magnitude(A_clean, B_clean, diff_lines, kw_delta)

\* the body of the _pairwise loop for the texts A (earlier) and B (later):
\* every field of the diff record that the two texts determine
CompareTexts(A, B) ==
    LET A_clean == Clean(A)
        B_clean == Clean(B)
        d == cosine_distance(A_clean, B_clean)
        kwA == _keyword_counts(A_clean)
        kwB == _keyword_counts(B_clean)
        kw_delta == [k \in DOMAIN kwA |-> kwB[k] - kwA[k]]
        diff_lines == unified_diff(SplitLines(A_clean), SplitLines(B_clean), 3)
        meaningful_diff_lines == SelectSeq(diff_lines, IsMeaningful)
        snippet == JoinLines(SubSeq(meaningful_diff_lines, 1,
                                    Min2(SnippetCap, Len(meaningful_diff_lines))))
    IN  [cosine_distance   |-> Round4(d),
         from_chars        |-> Len(A_clean),
         to_chars          |-> Len(B_clean),
         char_change       |-> Len(B_clean) - Len(A_clean),
         delta             |-> kw_delta,
         diff_snippet      |-> snippet]
            @@ _calculate_change_magnitude(A_clean, B_clean, diff_lines, kw_delta)

\* ------------------------------------------------------------------------
\* Snapshot index and DiffAnalyzer
\* ------------------------------------------------------------------------
\* the normalised texts a download can produce
Documents == {TextBringBack1, TextBringBack2, TextReviving, TextTwoLines}

\* safe_slug of the tracked paths, in the ascending order groupby visits them
SlugOrder == <<"about", "home">>

IndexTimestamps == {T20210115, T20210310, T20220201}

\* pd.to_datetime(timestamp, format="%Y%m%d%H%M%S", utc=True)
to_datetime(ts) ==
    <<ParseInt(SubSeq(ts, 1, 4)), ParseInt(SubSeq(ts, 5, 6)), ParseInt(SubSeq(ts, 7, 8)),
      ParseInt(SubSeq(ts, 9, 10)), ParseInt(SubSeq(ts, 11, 12)), ParseInt(SubSeq(ts, 13, 14))>>

\* OUTPUT_DIR / slug / f"{timestamp}.txt"
TextPath(slug, ts) == <<slug, ts>>

\* the record download_snapshot returns, with the dt_utc column run adds
SnapshotRecord(slug, ts) ==
    [slug |-> slug, timestamp |-> ts, dt_utc |-> to_datetime(ts),
     text_path |-> TextPath(slug, ts)]

\* the markup of an archived page, by its headings (<<>>: no such heading)
HtmlBird ==
    [h1 |-> <<"B", "r", "i", "n", "g", " ", "b", "a", "c", "k", " ", "b", "i", "r", "d">>,
     h2 |-> <<>>]

HtmlBirds ==
    [h1 |-> <<"B", "r", "i", "n", "g", " ", "b", "a", "c", "k", " ", "b", "i", "r", "d",
              "s">>,
     h2 |-> <<>>]

HtmlZoo == [h1 |-> <<>>, h2 |-> <<"Z", "o", "o">>]

HtmlBbAb == [h1 |-> <<"b", "b">>, h2 |-> <<"a", "b">>]

HtmlBbBigZoo == [h1 |-> <<"b", "b">>, h2 |-> <<"b", "i", "g", " ", "z", "o", "o">>]

\* the archive URL of a listed capture
ArchiveUrl == <<"u", "1">>

\* html_to_text on a page of headings: "[SOURCE] url", then "[H1] ..." and
\* "[H2] ..." for the headings with text, joined by blank lines
html_to_text(url, html) ==
    SourceMarker \o <<" ">> \o url
        \o (IF html.h1 # <<>>
            THEN <<"\n", "\n", "[", "H", "1", "]", " ">> \o html.h1 ELSE <<>>)
        \o (IF html.h2 # <<>>
            THEN <<"\n", "\n", "[", "H", "2", "]", " ">> \o html.h2 ELSE <<>>)

\* a dict without keys
EmptyTaglines == [k \in {} |-> <<>>]

\* the first selector and one of the class selectors
TAGLINE_SELECTORS == <<"h1", ".tagline">>

\* extract_taglines: the text of the first h1 under the key "h1", when it is
\* not empty and shorter than 500 characters
extract_taglines(html) ==
    IF html.h1 # <<>> /\ Len(html.h1) < 500
    THEN [k \in {"h1"} |-> html.h1]
    ELSE EmptyTaglines

\* the texts the collector can write for the archived pages
PageTexts == {html_to_text(ArchiveUrl, h) : h \in {HtmlBird, HtmlBirds, HtmlZoo}}

\* every comparison the analyzer can be asked for, computed once
PairTable ==
    [A \in Documents \cup PageTexts |-> [B \in Documents \cup PageTexts |-> CompareTexts(A, B)]]

\* taglines.get(key, "")
TaglineGet(taglines, key) == IF key \in DOMAIN taglines THEN taglines[key] ELSE <<>>

\* mutant: a changed text is not reported
TaglineDetailAddedRemoved(taglines_a, taglines_b, key) ==
    LET val_a == TaglineGet(taglines_a, key)
        val_b == TaglineGet(taglines_b, key)
    IN  IF val_a # <<>> /\ val_b = <<>>
        THEN << <<"Removed", key, Prefix(val_a, 50)>> >>
        ELSE IF val_a = <<>> /\ val_b # <<>>
        THEN << <<"Added", key, Prefix(val_b, 50)>> >>
        ELSE <<>>

\* the loop body of _compare_taglines for one key: the detail it appends
TaglineDetail(taglines_a, taglines_b, key) ==
    LET val_a == TaglineGet(taglines_a, key)
        val_b == TaglineGet(taglines_b, key)
    IN  IF val_a # <<>> /\ val_b = <<>>
        THEN << <<"Removed", key, Prefix(val_a, 50)>> >>
        ELSE IF val_a = <<>> /\ val_b # <<>>
        THEN << <<"Added", key, Prefix(val_b, 50)>> >>
        ELSE IF val_a # val_b
        THEN << <<"Changed", key, Prefix(val_a, 30), Prefix(val_b, 30)>> >>
        ELSE <<>>

\* the details list after "for key in all_keys", the keys visited in the
\* order keys
RECURSIVE TaglineDetails(_, _, _)
TaglineDetails(taglines_a, taglines_b, keys) ==
    IF keys = <<>> THEN <<>>
    ELSE TaglineDetail(taglines_a, taglines_b, Head(keys))
            \o TaglineDetails(taglines_a, taglines_b, Tail(keys))

\* the orders in which a set of keys can be iterated
KeyOrders(all_keys) ==
    {q \in [1..Cardinality(all_keys) -> all_keys] :
        \A i, j \in DOMAIN q : i # j => q[i] # q[j]}

\* the results _compare_taglines can return, one for each iteration order of
\* the set all_keys; tagline_details is the list of details in place of
\* their "; " join
_compare_taglines(taglines_a, taglines_b) ==
    IF DOMAIN taglines_a = {} /\ DOMAIN taglines_b = {}
    THEN {[tagline_changes |-> 0, tagline_details |-> << <<"No taglines found">> >>]}
    ELSE {LET details == TaglineDetails(taglines_a, taglines_b, keys)
          IN  [tagline_changes |-> Len(details),
               tagline_details |-> IF details # <<>> THEN details
                                   ELSE << <<"No changes">> >>] :
            keys \in KeyOrders(DOMAIN taglines_a \cup DOMAIN taglines_b)}

\* a["taglines"] if isinstance(a["taglines"], dict) else {}
TaglinesDict(cell) == IF cell.dtype = "dict" THEN cell.value ELSE EmptyTaglines

\* one row of the diff table, for the earlier record a and the later record b;
\* the taglines are compared when both records have the column (a page of
\* headings has at most one tagline, so the comparison has one result)
DiffRecord(a, b, fs) ==
    IF "taglines" \in DOMAIN a /\ "taglines" \in DOMAIN b
    THEN [slug |-> a.slug, from_ts |-> a.timestamp, to_ts |-> b.timestamp]
            @@ PairTable[fs[a.text_path]][fs[b.text_path]]
            @@ (CHOOSE c \in _compare_taglines(TaglinesDict(a.taglines),
                                                TaglinesDict(b.taglines)) : TRUE)
    ELSE [slug |-> a.slug, from_ts |-> a.timestamp, to_ts |-> b.timestamp]
            @@ PairTable[fs[a.text_path]][fs[b.text_path]]

\* mutant: the rows of a group are compared in index order
UnsortedOrders(g) == {g}

\* group.sort_values("dt_utc").reset_index(drop=True): every arrangement of
\* the group in ascending dt_utc (the sort is not stable, so rows with equal
\* dt_utc may come out in any order)
SortOrders(g) ==
    {q \in {[i \in 1..Len(g) |-> g[p[i]]] : p \in Permutations(1..Len(g))} :
        \A i \in 1..(Len(g) - 1) : ~LexLess(q[i + 1].dt_utc, q[i].dt_utc)}

\* mutant: the loop starts one pair late
_pairwise_from_second(g, fs) ==
    [i \in 1..Max2(Len(g) - 2, 0) |-> DiffRecord(g[i + 1], g[i + 2], fs)]

\* "for i in range(1, len(g)): a = g.loc[i - 1]; b = g.loc[i]; ..." on the
\* sorted group g
_pairwise(g, fs) ==
    [i \in 1..Max2(Len(g) - 1, 0) |-> DiffRecord(g[i], g[i + 1], fs)]

GroupOf(index, slug) == SelectSeq(index, LAMBDA r : r.slug = slug)

\* "for slug, grp in self.index_df.groupby("slug"): diffs.extend(self._pairwise(grp))":
\* the diff tables the run can produce
RECURSIVE DiffTables(_, _, _)
DiffTables(slugs, index, fs) ==
    IF slugs = <<>> THEN {<<>>}
    ELSE {_pairwise(g, fs) \o rest :
            g \in SortOrders(GroupOf(index, Head(slugs))),
            rest \in DiffTables(Tail(slugs), index, fs)}

InitAnalyzer ==
    /\ pc = "indexing"
    /\ mode = "all"
    /\ snaps = <<>>
    /\ sampled = <<>>
    /\ resampled = <<>>
    /\ text_a = <<>>
    /\ text_b = <<>>
    /\ dist = <<>>
    /\ index_df = <<>>
    /\ files = <<>>
    /\ diffs_df = <<>>
    /\ changes_df = <<>>
    /\ kw_in = <<>>
    /\ metrics = <<>>
    /\ mag_in = <<>>
    /\ category = ""
    /\ counts = <<>>
    /\ DetailIdle
    /\ ReportIdle
    /\ PipelineIdle

\* one snapshot is downloaded: its text file is written and its record
\* becomes the next row of the index
AddSnapshot ==
    /\ pc = "indexing"
    /\ Len(index_df) < MaxRows
    /\ \E n \in 1..Len(SlugOrder), ts \in IndexTimestamps, text \in Documents :
          LET slug == SlugOrder[n]
              path == TextPath(slug, ts)
          IN  /\ index_df' = Append(index_df, SnapshotRecord(slug, ts))
              /\ files' = [f \in DOMAIN files \cup {path} |->
                              IF f = path THEN text ELSE files[f]]
    /\ UNCHANGED <<pc, mode, snaps, sampled, resampled,
                 text_a, text_b, dist, diffs_df, changes_df, scoringVars, pipelineVars,
                   detailVars, reportVars>>

\* SIGNIFICANT_CHANGE = 0.05
SIGNIFICANT_CHANGE == Rat(5, 100)

\* mutant: a record at the threshold is left out
SignificantChangesStrict(table, threshold) ==
    SelectSeq(table, LAMBDA d : RatLess(threshold, d.cosine_distance))

\* diffs_df[diffs_df["cosine_distance"] >= self.significant_change].copy()
SignificantChanges(table, threshold) ==
    SelectSeq(table, LAMBDA d : RatLeq(threshold, d.cosine_distance))

\* the keyword counts of every text a snapshot file can hold, computed once
KeywordTable == [t \in Documents \cup PageTexts |-> _keyword_counts(t)]

\* one row of the keyword trend table: the counts of the loaded text of the
\* index row r with its slug and timestamp
TrendRow(r, fs) ==
    [slug |-> r.slug, timestamp |-> r.timestamp] @@ KeywordTable[fs[r.text_path]]

\* "for slug, grp in self.index_df.groupby("slug"): for _, r in
\* grp.sort_values("dt_utc").iterrows(): ...": the trend tables the run can
\* produce
RECURSIVE TrendTables(_, _, _)
TrendTables(slugs, index, fs) ==
    IF slugs = <<>> THEN {<<>>}
    ELSE {[i \in 1..Len(g) |-> TrendRow(g[i], fs)] \o rest :
            g \in SortOrders(GroupOf(index, Head(slugs))),
            rest \in TrendTables(Tail(slugs), index, fs)}

\* pd.to_datetime(magnitude_df["from_ts"], format="%Y%m%d%H%M%S") for the
\* change d: from_ts is the timestamp of the earlier snapshot, whose date
\* the index holds
ChangeDate(d, index) ==
    (CHOOSE r \in Range(index) : r.slug = d.slug /\ r.timestamp = d.from_ts).dt_utc

\* magnitude_df.sort_values("date").reset_index(drop=True): every
\* arrangement in ascending date (the sort is not stable)
DateOrders(df) ==
    {q \in {[i \in 1..Len(df) |-> df[p[i]]] : p \in Permutations(1..Len(df))} :
        \A i \in 1..(Len(df) - 1) : ~LexLess(q[i + 1].date, q[i].date)}

RECURSIVE RatSum(_)
RatSum(q) == IF q = <<>> THEN RatZero ELSE RatAdd(Head(q), RatSum(Tail(q)))

\* rolling(window=3, min_periods=1).mean() at row i of a column
Rolling3(column, i) ==
    LET window == SubSeq(column, Max2(1, i - 2), i)
    IN  RatMul(RatSum(window), Rat(1, Len(window)))

\* the magnitude time series of the significant changes: a date column,
\* the rows sorted by date over all slugs, and the rolling mean of the
\* magnitude_score column of that table
MagnitudeTables(changes, index) ==
    LET dated == [i \in 1..Len(changes) |->
                     changes[i] @@ [date |-> ChangeDate(changes[i], index)]]
    IN  {[i \in 1..Len(q) |->
             q[i] @@ [magnitude_rolling_3 |->
                         Rolling3([j \in 1..Len(q) |-> q[j].magnitude_score], i)]] :
            q \in DateOrders(dated)}

\* the report files a completed run has written: the two magnitude files
\* only when there is a significant change
Written(changes, before) ==
    [f \in ReportFiles |->
        IF changes = <<>> /\ f \in {"magnitude_timeseries.csv", "magnitude_monthly.csv"}
        THEN before[f] ELSE "written"]

\* DiffAnalyzer.run builds the diff table and writes it, selects the
\* significant changes, builds the keyword trend table and the magnitude
\* time series and writes the reports; a diff table without rows has no
\* cosine_distance column and the selection raises KeyError, after
\* wayback_diffs.csv was written
AnalyzerRun ==
    /\ pc = "indexing"
    /\ \E table \in DiffTables(SlugOrder, index_df, files) :
          /\ diffs_df' = table
          /\ IF table = <<>>
             THEN /\ pc' = "KeyError"
                  /\ changes_df' = changes_df
                  /\ trend_df' = trend_df
                  /\ magnitude_df' = magnitude_df
                  /\ reports' = [reports EXCEPT !["wayback_diffs.csv"] = "written"]
             ELSE LET changes == SignificantChanges(table, SIGNIFICANT_CHANGE)
                  IN  /\ pc' = "analyzed"
                      /\ changes_df' = changes
                      /\ trend_df' \in TrendTables(SlugOrder, index_df, files)
                      /\ magnitude_df' \in (IF changes = <<>> THEN {magnitude_df}
                                            ELSE MagnitudeTables(changes, index_df))
                      /\ reports' = Written(changes, reports)
    /\ UNCHANGED <<mode, snaps, sampled, resampled, text_a,
                 text_b, dist, index_df, files, scoringVars, pipelineVars,
                   detailVars>>

NextAnalyzer == AddSnapshot \/ AnalyzerRun

SpecAnalyzer == InitAnalyzer /\ [][NextAnalyzer]_vars

\* ------------------------------------------------------------------------
\* Analyzer properties
\* ------------------------------------------------------------------------
\* the diff table has been built
Analyzed == pc \in {"analyzed", "KeyError"}

Slugs == Range(SlugOrder)

RowsOf(slug) == GroupOf(index_df, slug)

DiffsOf(table, slug) == SelectSeq(table, LAMBDA d : d.slug = slug)

\* the timestamps a slug's diff records walk through: the first record's
\* from_ts, then every record's to_ts
TimestampChain(ds) ==
    IF ds = <<>> THEN <<>> ELSE <<ds[1].from_ts>> \o [i \in 1..Len(ds) |-> ds[i].to_ts]

Occurrences(q, x) == Cardinality({i \in 1..Len(q) : q[i] = x})

\* C8: a slug with n snapshot records gets exactly n-1 diff records (none
\* when n <= 1), one per adjacent pair of its chronologically sorted
\* snapshots; no record pairs snapshots of two slugs, and the table has the
\* sum over the slugs of max(n-1, 0) rows.
C8_DiffPerAdjacentPair ==
    Analyzed =>
        /\ \A slug \in Slugs :
              LET grp == RowsOf(slug)
                  ds == DiffsOf(diffs_df, slug)
                  chain == TimestampChain(ds)
              IN  /\ Len(ds) = Max2(Len(grp) - 1, 0)
                  /\ \A i \in 1..(Len(ds) - 1) : ds[i].to_ts = ds[i + 1].from_ts
                  /\ \A i \in 1..Len(ds) : ~LexLess(ds[i].to_ts, ds[i].from_ts)
                  /\ Len(grp) >= 2 =>
                        \A ts \in IndexTimestamps :
                            Occurrences(chain, ts)
                                = Occurrences([i \in 1..Len(grp) |-> grp[i].timestamp], ts)
        /\ \A i \in 1..Len(diffs_df) : diffs_df[i].slug \in Slugs
        /\ Len(diffs_df) =
              SumSeq([n \in 1..Len(SlugOrder) |-> Max2(Len(RowsOf(SlugOrder[n])) - 1, 0)])

\* C8 witness: an index whose rows are out of chronological order, with
\* two snapshots of one slug and one of the other, has been analyzed
C8_Witness ==
    /\ Analyzed
    /\ \E s1 \in Slugs : \E s2 \in Slugs :
          /\ Len(RowsOf(s1)) = 2
          /\ Len(RowsOf(s2)) = 1
          /\ LexLess(RowsOf(s1)[2].timestamp, RowsOf(s1)[1].timestamp)
    /\ Len(diffs_df) = 1

DistinctTimestamps(slug) ==
    \A i \in 1..Len(RowsOf(slug)) : \A j \in 1..Len(RowsOf(slug)) :
        i # j => RowsOf(slug)[i].timestamp # RowsOf(slug)[j].timestamp

\* C9: for a slug whose snapshots have distinct timestamps the diff records
\* are the same for every order of the index rows, and each record goes
\* from a snapshot to its immediate chronological successor.
C9_RowOrderIrrelevant ==
    Analyzed =>
        \A slug \in Slugs : DistinctTimestamps(slug) =>
            \* a permutation of the index rows hands groupby the slug's rows
            \* in some order, and every order of them comes from one
            /\ \A p \in Permutations(1..Len(RowsOf(slug))) :
                  \A g \in SortOrders([i \in 1..Len(RowsOf(slug)) |-> RowsOf(slug)[p[i]]]) :
                      _pairwise(g, files) = DiffsOf(diffs_df, slug)
            /\ \A i \in 1..Len(diffs_df) :
                  diffs_df[i].slug = slug =>
                      /\ LexLess(diffs_df[i].from_ts, diffs_df[i].to_ts)
                      /\ \A k \in 1..Len(RowsOf(slug)) :
                            ~(/\ LexLess(diffs_df[i].from_ts, RowsOf(slug)[k].timestamp)
                              /\ LexLess(RowsOf(slug)[k].timestamp, diffs_df[i].to_ts))

\* C9 witness: three snapshots of one slug with distinct timestamps, indexed
\* latest first, have been analyzed
C9_Witness ==
    /\ Analyzed
    /\ \E slug \in Slugs :
          /\ Len(RowsOf(slug)) = 3
          /\ DistinctTimestamps(slug)
          /\ LexLess(RowsOf(slug)[3].timestamp, RowsOf(slug)[2].timestamp)
          /\ LexLess(RowsOf(slug)[2].timestamp, RowsOf(slug)[1].timestamp)
          /\ Len(DiffsOf(diffs_df, slug)) = 2

\* C10: a diff record of two snapshots whose cleaned texts are identical has
\* magnitude score 0 and change category Minimal.
C10_IdenticalTextsScoreZero ==
    Analyzed =>
        \A i \in 1..Len(diffs_df) :
            LET d == diffs_df[i]
            IN  (/\ d.from_ts # d.to_ts
                 /\ Clean(files[TextPath(d.slug, d.from_ts)])
                        = Clean(files[TextPath(d.slug, d.to_ts)]))
                => (d.magnitude_score = RatZero /\ d.change_category = "Minimal")

\* ------------------------------------------------------------------------
\* The scoring functions on their own: _calculate_change_magnitude,
\* _categorize_change_magnitude and _keyword_counts
\* ------------------------------------------------------------------------
MaxDelta == 2   \* largest absolute keyword delta handed to the magnitude

MaxPieces == 3  \* most pieces a keyword text is put together from

MaxOffset == 1  \* ten-thousandths explored on either side of a tenth

\* the texts the magnitude is taken of
ScoringTexts ==
    {TextSourceOnly, TextZoo, TextBird, TextBirds, TextBringBack1, TextTwoLines,
     html_to_text(ArchiveUrl, HtmlBbAb), html_to_text(ArchiveUrl, HtmlBbBigZoo)}

KeywordDeltas == [Range(KeywordCategories) -> (-MaxDelta)..MaxDelta]

\* the magnitudes at and next to every tenth from 0.0 to 1.0
CandidateMagnitudes ==
    {Rat(1000 * t + e, 10000) : t \in 0..10, e \in (-MaxOffset)..MaxOffset}

Pieces ==
    {<<"c", "l", "i", "m", "a", "t", "e">>, <<" ", "c", "h", "a", "n", "g", "e">>,
     <<"d", "e", "-">>, <<"E", "x", "t", "i", "n", "c", "t">>, <<"i", "o", "n">>, <<" ">>, <<"s">>}

\* the texts put together from at most n pieces
RECURSIVE KeywordTexts(_)
KeywordTexts(n) ==
    IF n = 0 THEN {<<>>}
    ELSE LET shorter == KeywordTexts(n - 1)
         IN  shorter \cup {t \o piece : t \in shorter, piece \in Pieces}

InitScoring ==
    /\ pc = "idle"
    /\ mode = "all"
    /\ snaps = <<>>
    /\ sampled = <<>>
    /\ resampled = <<>>
    /\ text_a = <<>>
    /\ text_b = <<>>
    /\ dist = <<>>
    /\ index_df = <<>>
    /\ files = <<>>
    /\ diffs_df = <<>>
    /\ changes_df = <<>>
    /\ kw_in = <<>>
    /\ metrics = <<>>
    /\ mag_in = <<>>
    /\ category = ""
    /\ counts = <<>>
    /\ DetailIdle
    /\ ReportIdle
    /\ PipelineIdle

\* two loaded texts and a keyword delta vector
ChoosePair ==
    /\ pc = "idle"
    /\ text_a' \in ScoringTexts
    /\ text_b' \in ScoringTexts
    /\ kw_in' \in KeywordDeltas
    /\ pc' = "chosen"
    /\ UNCHANGED <<samplerVars, analyzerVars, dist, metrics, mag_in, category,
                   counts, pipelineVars,
                   detailVars, reportVars>>

\* the texts are cleaned and diffed as in _pairwise, and
\* _calculate_change_magnitude is called
CalculateChangeMagnitude ==
    /\ pc = "chosen"
    /\ metrics' = _calculate_change_magnitude(
                      Clean(text_a), Clean(text_b),
                      unified_diff(SplitLines(Clean(text_a)), SplitLines(Clean(text_b)), 3),
                      kw_in)
    /\ pc' = "scored"
    /\ UNCHANGED <<samplerVars, analyzerVars, text_a, text_b, dist,
                   kw_in, mag_in, category, counts, pipelineVars,
                   detailVars, reportVars>>

\* _categorize_change_magnitude(m)
Categorize ==
    /\ pc = "idle"
    /\ \E m \in CandidateMagnitudes :
          /\ mag_in' = m
          /\ category' = _categorize_change_magnitude(m)
    /\ pc' = "categorized"
    /\ UNCHANGED <<samplerVars, analyzerVars, text_a, text_b, dist,
                   kw_in, metrics, counts, pipelineVars,
                   detailVars, reportVars>>

\* _keyword_counts(text)
CountKeywords ==
    /\ pc = "idle"
    /\ \E t \in KeywordTexts(MaxPieces) :
          /\ text_a' = t
          /\ counts' = _keyword_counts(t)
    /\ pc' = "counted"
    /\ UNCHANGED <<samplerVars, analyzerVars, text_b, dist,
                   kw_in, metrics, mag_in, category, pipelineVars,
                   detailVars, reportVars>>

\* the texts a tagline can have
TaglineTexts == {HtmlBird.h1, HtmlBirds.h1}

\* the tagline mappings extract_taglines can return over the two selectors:
\* a key is absent or has a text that is not empty
TaglineMappings ==
    UNION {[keys -> TaglineTexts] : keys \in SUBSET Range(TAGLINE_SELECTORS)}

\* _compare_taglines(taglines_a, taglines_b)
CompareTaglines ==
    /\ pc = "idle"
    /\ \E ta \in TaglineMappings, tb \in TaglineMappings :
          /\ tl_a' = ta
          /\ tl_b' = tb
          /\ tl_cmp' \in _compare_taglines(ta, tb)
    /\ pc' = "taglines_compared"
    /\ UNCHANGED <<samplerVars, analyzerVars, text_a, text_b, dist, scoringVars,
                   pipelineVars, record, norm_in, norm_out, reportVars>>

\* '[SOURCE] u1\n[H1] Intro'
TextIntro ==
    <<"[", "S", "O", "U", "R", "C", "E", "]", " ", "u", "1", "\n", "[", "H", "1", "]",
      " ", "I", "n", "t", "r", "o">>

\* '[SOURCE] u1\n[H1] Intro\n--x': the last line of the text starts with
\* two dashes
TextDashRule ==
    <<"[", "S", "O", "U", "R", "C", "E", "]", " ", "u", "1", "\n", "[", "H", "1", "]",
      " ", "I", "n", "t", "r", "o", "\n", "-", "-", "x">>

\* the texts _pairwise is run on
PairwiseTexts ==
    {TextBringBack1, TextBringBack2, TextReviving, TextTwoLines, TextIntro, TextDashRule}

\* the body of the _pairwise loop for one adjacent pair of loaded texts
Pairwise ==
    /\ pc = "idle"
    /\ \E A \in PairwiseTexts, B \in PairwiseTexts :
          /\ text_a' = A
          /\ text_b' = B
          /\ record' = CompareTexts(A, B)
    /\ pc' = "compared"
    /\ UNCHANGED <<samplerVars, analyzerVars, dist, scoringVars, pipelineVars,
                   tl_a, tl_b, tl_cmp, norm_in, norm_out, reportVars>>

NextScoring ==
    \/ ChoosePair \/ CalculateChangeMagnitude \/ Categorize \/ CountKeywords
    \/ CompareTaglines \/ Pairwise

SpecScoring == InitScoring /\ [][NextScoring]_vars

\* ------------------------------------------------------------------------
\* Scoring properties
\* ------------------------------------------------------------------------
Scored == pc = "scored"

ScoreFields ==
    {"similarity_score", "char_change_ratio", "diff_density", "keyword_intensity",
     "structural_score", "magnitude_score"}

\* the Jaccard distance of the shingle sets of two texts
ShingleDistance(a, b) ==
    LET Sa == ShingleSet(a)
        Sb == ShingleSet(b)
    IN  IF Sa \cup Sb = {} THEN RatZero
        ELSE Rat(Cardinality(Sa \cup Sb) - Cardinality(Sa \cap Sb), Cardinality(Sa \cup Sb))

RatDistance(x, y) == IF RatLeq(x, y) THEN RatSub(y, x) ELSE RatSub(x, y)

\* C11: for two texts whose shingle sets are disjoint (textual distance 1)
\* the similarity sub-score of the record equals 1.
C11_DisjointSimilarityOne ==
    Scored =>
        (ShingleDistance(Clean(text_a), Clean(text_b)) = RatOne
            => metrics.similarity_score = RatOne)

\* 0.30 s + 0.20 c + 0.25 d + 0.15 k + 0.10 t, in hundredths
WeightedHundredths(m) ==
    RatAdd(RatAdd(RatAdd(RatAdd(
        RatMul(Rat(30, 1), m.similarity_score),
        RatMul(Rat(20, 1), m.char_change_ratio)),
        RatMul(Rat(25, 1), m.diff_density)),
        RatMul(Rat(15, 1), m.keyword_intensity)),
        RatMul(Rat(10, 1), m.structural_score))

\* C12: the combined magnitude is 0.30 (1 - textual distance of the cleaned
\* texts) + 0.20 character-change ratio + 0.25 diff density + 0.15 keyword
\* intensity + 0.10 structural score, up to the rounding of the reported
\* values to four decimals, and the five weights sum to 1.
C12_WeightedCombination ==
    Scored =>
        /\ metrics.similarity_score
               = Round4(RatSub(RatOne, ShingleDistance(Clean(text_a), Clean(text_b))))
        /\ RatLeq(RatDistance(RatMul(Rat(100, 1), metrics.magnitude_score),
                              WeightedHundredths(metrics)),
                  Rat(1, 100))
        /\ WeightedHundredths([f \in ScoreFields |-> RatOne]) = Rat(100, 1)

\* C12 witness: a pair with a nonzero keyword delta whose five sub-scores
\* are all different from 0 has been scored
C12_Witness ==
    /\ Scored
    /\ \A f \in ScoreFields : metrics[f] # RatZero
    /\ metrics.similarity_score # metrics.diff_density

\* sum of the absolute keyword deltas
TotalDelta == SumSeq([n \in 1..Len(KeywordCategories) |-> Abs(kw_in[KeywordCategories[n]])])

\* C13: every sub-score and the combined magnitude lie in [0, 1] for every
\* pair of texts (two empty ones included) and every keyword delta vector;
\* the keyword intensity is s / (s + 10) for the sum s of the absolute
\* deltas: 0 when s = 0 and always below 1.
C13_ScoresInUnitInterval ==
    Scored =>
        /\ \A f \in ScoreFields :
              RatLeq(RatZero, metrics[f]) /\ RatLeq(metrics[f], RatOne)
        /\ metrics.keyword_intensity = Round4(Rat(TotalDelta, TotalDelta + 10))
        /\ TotalDelta = 0 => metrics.keyword_intensity = RatZero
        /\ RatLess(metrics.keyword_intensity, RatOne)

\* C13 witness: two texts that are empty once cleaned, with all keyword
\* deltas zero, have been scored
C13_Witness ==
    /\ Scored
    /\ Clean(text_a) = <<>>
    /\ Clean(text_b) = <<>>
    /\ TotalDelta = 0

\* C14: the category is Major iff m >= 0.8, Substantial iff 0.6 <= m < 0.8,
\* Moderate iff 0.4 <= m < 0.6, Minor iff 0.2 <= m < 0.4 and Minimal iff
\* m < 0.2, so exactly one label applies to every magnitude.
C14_CategoryBands ==
    pc = "categorized" =>
        /\ category \in {"Major", "Substantial", "Moderate", "Minor", "Minimal"}
        /\ category = "Major" <=> RatLeq(Rat(8, 10), mag_in)
        /\ category = "Substantial"
              <=> (RatLeq(Rat(6, 10), mag_in) /\ RatLess(mag_in, Rat(8, 10)))
        /\ category = "Moderate"
              <=> (RatLeq(Rat(4, 10), mag_in) /\ RatLess(mag_in, Rat(6, 10)))
        /\ category = "Minor"
              <=> (RatLeq(Rat(2, 10), mag_in) /\ RatLess(mag_in, Rat(4, 10)))
        /\ category = "Minimal" <=> RatLess(mag_in, Rat(2, 10))

\* C14 witness: a magnitude that sits exactly on a band boundary has been
\* categorized
C14_Witness ==
    /\ pc = "categorized"
    /\ mag_in = Rat(6, 10)
    /\ category = "Substantial"

\* the places where the phrase w stands in t with no word character next to
\* it on either side
PhraseOccurrences(t, w) ==
    {i \in 1..(Len(t) - Len(w) + 1) :
        /\ SubSeq(t, i, i + Len(w) - 1) = w
        /\ (i = 1 \/ t[i - 1] \notin WordChars)
        /\ (i + Len(w) - 1 = Len(t) \/ t[i + Len(w)] \notin WordChars)}

\* C16: the count of a category is the sum over its phrases of the number
\* of case-insensitive occurrences of the phrase that have no word
\* character on either side; overlapping occurrences of different phrases
\* are each counted and a phrase inside a longer word is not.
C16_KeywordCounts ==
    pc = "counted" =>
        \A k \in DOMAIN KEYWORDS :
            counts[k] = SumSeq([n \in 1..Len(KEYWORDS[k]) |->
                                  Cardinality(PhraseOccurrences(Lower(text_a),
                                                                Lower(KEYWORDS[k][n])))])

\* C16 witness: "climate change" has been counted: the phrases "climate"
\* and "climate change" overlap and each counts once
C16_Witness ==
    /\ pc = "counted"
    /\ text_a = <<"c", "l", "i", "m", "a", "t", "e">> \o <<" ", "c", "h", "a", "n", "g", "e">>
    /\ counts["climate_benefit"] = 2

\* ------------------------------------------------------------------------
\* main: check_existing_data, WaybackCollector.run, DiffAnalyzer.run
\* ------------------------------------------------------------------------
MaxListing == 2     \* most captures the archive lists for one path
MaxPersisted == 2   \* most rows of an index an earlier run left on disk

\* the first tracked paths
CANONICAL_PATHS == <<"/", "/about/">>

SAMPLING == "monthly"

\* safe_slug on the tracked paths
safe_slug(path) == CASE path = "/" -> "home" [] path = "/about/" -> "about"

\* OUTPUT_DIR / slug / f"{timestamp}.html"
HtmlPath(slug, ts) == <<slug, ts, "html">>

\* the capture times the archive can list
ListingTimestamps == {T20210115, T20210310}

\* what list_snapshots can collect from the archive for one path
Listings ==
    UNION {[1..n -> {<<ts, ArchiveUrl>> : ts \in ListingTimestamps}] : n \in 0..MaxListing}

\* the pages the archive holds for a path
PagesAt(path) == IF path = "/" THEN {HtmlBird, HtmlBirds} ELSE {HtmlZoo, HtmlBird}

\* a response without markup
HtmlNone == [h1 |-> <<>>, h2 |-> <<>>]

\* the ways one request for a capture can end
Outcomes(path) ==
    {[ok |-> TRUE, html |-> h] : h \in PagesAt(path)} \cup {[ok |-> FALSE, html |-> HtmlNone]}

\* the record download_snapshot returns
download_snapshot(archive_url, path, timestamp, html) ==
    [path        |-> path,
     slug        |-> safe_slug(path),
     timestamp   |-> [dtype |-> "str", value |-> timestamp],
     archive_url |-> archive_url,
     html_path   |-> HtmlPath(safe_slug(path), timestamp),
     text_path   |-> TextPath(safe_slug(path), timestamp),
     taglines    |-> [dtype |-> "dict", value |-> extract_taglines(html)]]

\* df["dt_utc"] = pd.to_datetime(df["timestamp"], format="%Y%m%d%H%M%S", utc=True)
WithDates(df) ==
    [i \in 1..Len(df) |-> df[i] @@ [dt_utc |-> to_datetime(df[i].timestamp.value)]]

\* df.to_csv(index_fp, index=False): every cell is written as its text
to_csv(df) ==
    [state |-> "readable",
     rows  |-> [i \in 1..Len(df) |->
                  [df[i] EXCEPT !.timestamp.dtype = "text", !.taglines.dtype = "text"]]]

\* pd.read_csv(index_fp): a column of digits is read as int64, any other
\* text as str
read_csv(file) ==
    [i \in 1..Len(file.rows) |->
        [file.rows[i] EXCEPT !.timestamp.dtype = "int64", !.taglines.dtype = "str"]]

\* the paths check_existing_data finds missing
MissingFiles(df, fs, hs) ==
    {df[i].text_path : i \in {j \in 1..Len(df) : df[j].text_path \notin DOMAIN fs}}
        \cup {df[i].html_path : i \in {j \in 1..Len(df) : df[j].html_path \notin hs}}

\* mutant: only the text files are looked for
check_existing_data_text_only(file, fs, hs) ==
    IF file.state = "absent" THEN [data_exists |-> FALSE, df |-> <<>>]
    ELSE IF file.state = "unreadable" THEN [data_exists |-> FALSE, df |-> <<>>]
    ELSE IF read_csv(file) = <<>> THEN [data_exists |-> FALSE, df |-> <<>>]
    ELSE IF MissingFiles(read_csv(file), fs, hs \cup {r.html_path : r \in Range(read_csv(file))}) # {}
         THEN [data_exists |-> FALSE, df |-> <<>>]
    ELSE [data_exists |-> TRUE, df |-> read_csv(file)]

\* check_existing_data: (data_exists, dataframe)
check_existing_data(file, fs, hs) ==
    IF file.state = "absent" THEN [data_exists |-> FALSE, df |-> <<>>]
    ELSE IF file.state = "unreadable" THEN [data_exists |-> FALSE, df |-> <<>>]
    ELSE IF read_csv(file) = <<>> THEN [data_exists |-> FALSE, df |-> <<>>]
    ELSE IF MissingFiles(read_csv(file), fs, hs) # {}
         THEN [data_exists |-> FALSE, df |-> <<>>]
    ELSE [data_exists |-> TRUE, df |-> read_csv(file)]

\* what sample_snapshots, in the default mode, can hand to the download loop
SampledListings == {sample_snapshots(l, SAMPLING) : l \in Listings}

\* the downloads of a sampled listing s that succeeded under the outcomes o,
\* each with its record and the text written for it
Saved(path, s, o) ==
    LET all == [i \in 1..Len(s) |->
                   [ok   |-> o[i].ok,
                    rec  |-> download_snapshot(s[i][2], path, s[i][1], o[i].html),
                    text |-> html_to_text(s[i][2], o[i].html)]]
    IN  SelectSeq(all, LAMBDA x : x.ok)

\* what an earlier run can have saved for one path
PathRuns(path) ==
    UNION {{Saved(path, s, o) : o \in [1..Len(s) -> Outcomes(path)]} : s \in SampledListings}

\* what an earlier run can have saved over the tracked paths
PriorRuns ==
    {r \in {a \o b : a \in PathRuns(CANONICAL_PATHS[1]), b \in PathRuns(CANONICAL_PATHS[2])} :
        Len(r) <= MaxPersisted}

\* what can have happened to the data directory since the earlier run
Damages == {"none", "index_deleted", "index_unreadable", "text_deleted", "html_deleted"}

\* main starts on the data directory an earlier run left, with the index or
\* one file possibly lost since
InitMain ==
    /\ pc = "start"
    /\ mode = SAMPLING
    /\ snaps = <<>>
    /\ sampled = <<>>
    /\ resampled = <<>>
    /\ text_a = <<>>
    /\ text_b = <<>>
    /\ dist = <<>>
    /\ index_df = <<>>
    /\ diffs_df = <<>>
    /\ changes_df = <<>>
    /\ kw_in = <<>>
    /\ metrics = <<>>
    /\ mag_in = <<>>
    /\ category = ""
    /\ counts = <<>>
    /\ DetailIdle
    /\ ReportIdle
    /\ data_exists = "unchecked"
    /\ paths_left = <<>>
    /\ todo = <<>>
    /\ rows = <<>>
    /\ listed = <<>>
    /\ attempts = <<>>
    /\ \E prior \in PriorRuns, damage \in Damages, k \in 1..MaxPersisted :
          LET texts == {prior[i].rec.text_path :
                          i \in {j \in 1..Len(prior) : damage # "text_deleted" \/ j # k}}
              htmls == {prior[i].rec.html_path :
                          i \in {j \in 1..Len(prior) : damage # "html_deleted" \/ j # k}}
          IN  /\ damage \in {"text_deleted", "html_deleted"} => k <= Len(prior)
              /\ csv = IF damage = "index_deleted" THEN [state |-> "absent", rows |-> <<>>]
                       ELSE IF damage = "index_unreadable"
                            THEN [state |-> "unreadable", rows |-> <<>>]
                            ELSE to_csv(WithDates([i \in 1..Len(prior) |-> prior[i].rec]))
              /\ files = [f \in texts |->
                            (CHOOSE x \in Range(prior) : x.rec.text_path = f).text]
              /\ html_files = htmls

\* main calls check_existing_data; without usable data it starts the collector
\* on every tracked path
CheckExistingData ==
    /\ pc = "start"
    /\ LET found == check_existing_data(csv, files, html_files)
       IN  IF found.data_exists
           THEN /\ data_exists' = "True"
                /\ index_df' = found.df
                /\ paths_left' = paths_left
                /\ pc' = "indexing"
           ELSE /\ data_exists' = "False"
                /\ index_df' = found.df
                /\ paths_left' = CANONICAL_PATHS
                /\ pc' = "collecting"
    /\ UNCHANGED <<samplerVars, text_a, text_b, dist, files, diffs_df, changes_df,
                   scoringVars, csv, html_files, todo, rows, listed, attempts,
                   detailVars, reportVars>>

\* the loop of WaybackCollector.run reaches the next path: list_snapshots
\* (an exception is logged and gives no captures), then sample_snapshots
ListPath ==
    /\ pc = "collecting"
    /\ todo = <<>>
    /\ paths_left # <<>>
    /\ \E ok \in BOOLEAN, l \in Listings :
          LET path == Head(paths_left)
              s == sample_snapshots(IF ok THEN l ELSE <<>>, SAMPLING)
          IN  /\ todo' = [i \in 1..Len(s) |->
                            [path |-> path, timestamp |-> s[i][1], archive_url |-> s[i][2]]]
              /\ listed' = Append(listed, [path |-> path, ok |-> ok, sampled |-> s])
    /\ paths_left' = Tail(paths_left)
    /\ UNCHANGED <<pc, samplerVars, analyzerVars, text_a, text_b, dist, scoringVars,
                   csv, html_files, data_exists, rows, attempts,
                   detailVars, reportVars>>

\* mutant: a failed download ends the run
DownloadAborting ==
    /\ pc = "collecting"
    /\ todo # <<>>
    /\ \E o \in Outcomes(Head(todo).path) :
          LET e == Head(todo)
              rec == download_snapshot(e.archive_url, e.path, e.timestamp, o.html)
          IN  /\ attempts' = Append(attempts,
                                    [path |-> e.path, timestamp |-> e.timestamp, ok |-> o.ok])
              /\ IF o.ok
                 THEN /\ rows' = Append(rows, rec)
                      /\ files' = [f \in DOMAIN files \cup {rec.text_path} |->
                                      IF f = rec.text_path
                                      THEN html_to_text(e.archive_url, o.html)
                                      ELSE files[f]]
                      /\ html_files' = html_files \cup {rec.html_path}
                      /\ pc' = pc
                 ELSE /\ pc' = "aborted"
                      /\ UNCHANGED <<rows, files, html_files>>
    /\ todo' = Tail(todo)
    /\ UNCHANGED <<samplerVars, index_df, diffs_df, changes_df, text_a, text_b, dist,
                   scoringVars, csv, data_exists, paths_left, listed,
                   detailVars, reportVars>>

\* one pass of the download loop: download_snapshot writes the two files and
\* its record is appended, or it raises and the capture is skipped
Download ==
    /\ pc = "collecting"
    /\ todo # <<>>
    /\ \E o \in Outcomes(Head(todo).path) :
          LET e == Head(todo)
              rec == download_snapshot(e.archive_url, e.path, e.timestamp, o.html)
          IN  /\ attempts' = Append(attempts,
                                    [path |-> e.path, timestamp |-> e.timestamp, ok |-> o.ok])
              /\ IF o.ok
                 THEN /\ rows' = Append(rows, rec)
                      /\ files' = [f \in DOMAIN files \cup {rec.text_path} |->
                                      IF f = rec.text_path
                                      THEN html_to_text(e.archive_url, o.html)
                                      ELSE files[f]]
                      /\ html_files' = html_files \cup {rec.html_path}
                      /\ pc' = pc
                 ELSE /\ pc' = pc
                      /\ UNCHANGED <<rows, files, html_files>>
    /\ todo' = Tail(todo)
    /\ UNCHANGED <<samplerVars, index_df, diffs_df, changes_df, text_a, text_b, dist,
                   scoringVars, csv, data_exists, paths_left, listed,
                   detailVars, reportVars>>

\* after the last path run adds the date columns and writes index.csv; main
\* returns when the index is empty
FinishCollect ==
    /\ pc = "collecting"
    /\ todo = <<>>
    /\ paths_left = <<>>
    /\ index_df' = WithDates(rows)
    /\ csv' = to_csv(WithDates(rows))
    /\ pc' = IF rows = <<>> THEN "no_snapshots" ELSE "indexing"
    /\ UNCHANGED <<samplerVars, files, diffs_df, changes_df, text_a, text_b, dist,
                   scoringVars, html_files, data_exists, paths_left, todo, rows, listed,
                   attempts,
                   detailVars, reportVars>>

NextMain == CheckExistingData \/ ListPath \/ Download \/ FinishCollect \/ AnalyzerRun

SpecMain == InitMain /\ [][NextMain]_vars

\* WaybackCollector.run(CANONICAL_PATHS) is entered on an empty data directory
InitCollector ==
    /\ pc = "collecting"
    /\ mode = SAMPLING
    /\ snaps = <<>>
    /\ sampled = <<>>
    /\ resampled = <<>>
    /\ text_a = <<>>
    /\ text_b = <<>>
    /\ dist = <<>>
    /\ index_df = <<>>
    /\ files = <<>>
    /\ diffs_df = <<>>
    /\ changes_df = <<>>
    /\ kw_in = <<>>
    /\ metrics = <<>>
    /\ mag_in = <<>>
    /\ category = ""
    /\ counts = <<>>
    /\ DetailIdle
    /\ ReportIdle
    /\ csv = [state |-> "absent", rows |-> <<>>]
    /\ html_files = {}
    /\ data_exists = "False"
    /\ paths_left = CANONICAL_PATHS
    /\ todo = <<>>
    /\ rows = <<>>
    /\ listed = <<>>
    /\ attempts = <<>>

NextCollector == ListPath \/ Download \/ FinishCollect

\* the loops are sequential and every request has a timeout, so the step
\* that is enabled is eventually taken
SpecCollector == InitCollector /\ [][NextCollector]_vars /\ WF_vars(NextCollector)

\* ------------------------------------------------------------------------
\* Properties of main
\* ------------------------------------------------------------------------
\* the positions of the diff records whose distance is at least 0.05
AtLeastThreshold(table) ==
    {i \in 1..Len(table) : 20 * table[i].cosine_distance[1] >= table[i].cosine_distance[2]}

FreshIndex == pc = "indexing" /\ data_exists = "False"

\* C17: the index written by WaybackCollector.run and reloaded by
\* check_existing_data is usable and gives the analyzer the same diff records
\* as the in-memory index, timestamps and tagline fields included.
C17_ReloadRoundTrip ==
    FreshIndex =>
        LET found == check_existing_data(csv, files, html_files)
        IN  /\ found.data_exists
            /\ DiffTables(SlugOrder, found.df, files) = DiffTables(SlugOrder, index_df, files)

\* WaybackCollector.run has returned
CollectDone == pc \in {"indexing", "no_snapshots"}

\* the captures handed to the download loop, over all listings, in order
RECURSIVE SampledOf(_)
SampledOf(listings) ==
    IF listings = <<>> THEN <<>>
    ELSE [i \in 1..Len(Head(listings).sampled) |->
             <<Head(listings).path, Head(listings).sampled[i][1]>>]
            \o SampledOf(Tail(listings))

\* every tracked path was listed, every sampled capture was requested once,
\* and the index has one row per successful download, in order
CollectedAll ==
    /\ [i \in 1..Len(listed) |-> listed[i].path] = CANONICAL_PATHS
    /\ [i \in 1..Len(attempts) |-> <<attempts[i].path, attempts[i].timestamp>>]
          = SampledOf(listed)
    /\ [i \in 1..Len(index_df) |-> <<index_df[i].path, index_df[i].timestamp.value>>]
          = LET done == SelectSeq(attempts, LAMBDA a : a.ok)
            IN  [i \in 1..Len(done) |-> <<done[i].path, done[i].timestamp>>]
    /\ csv.state = "readable"
    /\ Len(csv.rows) = Len(index_df)

\* C18: a failed listing or a failed download never aborts
\* WaybackCollector.run: the run terminates, and when it has, every path was
\* listed, every sampled capture was attempted, and the index holds exactly
\* one row per successful download.
C18_FailuresDoNotAbort == [](CollectDone => CollectedAll) /\ <>CollectDone

\* C18 witness: a finished run in which the listing of the first path failed
\* and, for the second path, the first download failed and the second
\* succeeded
C18_Witness ==
    /\ CollectDone
    /\ Len(listed) = 2
    /\ ~listed[1].ok
    /\ Len(attempts) = 2
    /\ ~attempts[1].ok
    /\ attempts[2].ok
    /\ Len(index_df) = 1

\* the data directory is still as main found it
DiskUntouched == data_exists = "True" \/ (pc = "collecting" /\ attempts = <<>>)

\* the persisted index is absent, unreadable, empty, or names a text or
\* markup file that is not on disk
Unusable ==
    \/ csv.state \in {"absent", "unreadable"}
    \/ csv.rows = <<>>
    \/ \E i \in 1..Len(csv.rows) :
          csv.rows[i].text_path \notin DOMAIN files \/ csv.rows[i].html_path \notin html_files

\* DiffAnalyzer.run has been entered
AnalyzerEntered == pc \in {"analyzed", "KeyError"}

\* C19: on an absent, empty or unreadable index, or one that names a missing
\* text or markup file, check_existing_data answers False with an empty
\* table; main then collects over all tracked paths; and the analyzer never
\* gets an index that names a missing file.
C19_UnusableIndexRecollected ==
    /\ (data_exists # "unchecked" /\ DiskUntouched /\ Unusable) =>
          (data_exists = "False" /\ (pc = "collecting" => index_df = <<>>))
    /\ data_exists = "False" =>
          /\ pc \in {"collecting", "indexing", "no_snapshots", "analyzed", "KeyError"}
          /\ [i \in 1..Len(listed) |-> listed[i].path] \o paths_left = CANONICAL_PATHS
    /\ (pc = "indexing" \/ AnalyzerEntered) =>
          \A i \in 1..Len(index_df) :
              index_df[i].text_path \in DOMAIN files /\ index_df[i].html_path \in html_files

\* C19 witness: the index is readable and every text file is there, one
\* markup file is missing, and main has turned to the collector
C19_Witness ==
    /\ pc = "collecting"
    /\ attempts = <<>>
    /\ data_exists = "False"
    /\ csv.state = "readable"
    /\ csv.rows # <<>>
    /\ \A i \in 1..Len(csv.rows) : csv.rows[i].text_path \in DOMAIN files
    /\ \E i \in 1..Len(csv.rows) : csv.rows[i].html_path \notin html_files
    /\ paths_left = CANONICAL_PATHS

\* C20: on a persisted index that is non-empty and whose files all exist,
\* main analyses the reloaded index, issues no listing or download request,
\* and the analysis completes.
C20_ReanalysisWithoutFetch ==
    /\ (data_exists # "unchecked" /\ DiskUntouched /\ ~Unusable) => data_exists = "True"
    /\ data_exists = "True" =>
          /\ listed = <<>>
          /\ attempts = <<>>
          /\ index_df = read_csv(csv)
          /\ pc \in {"indexing", "analyzed"}

\* ------------------------------------------------------------------------
\* Properties of the diff record of two texts
\* ------------------------------------------------------------------------
\* the number of text lines the comparison of the line lists a and b removes
\* or adds
ChangedTextLines(a, b) ==
    LET blocks == MatchingBlocks(a, b, 0, Len(a), 0, Len(b)) \o << <<Len(a), Len(b), 0>> >>
        tl == OpcodeLines(a, b, blocks, 0, 0)
    IN  Cardinality({p \in 1..Len(tl) : tl[p][1] # " "})

\* C24: the diff density is min(1, c / (lines(A) + lines(B))), c the number
\* of added or removed text lines (the two file-header lines and the hunk
\* headers not counted), with denominator 1 when both texts have no lines.
C24_DiffDensity ==
    Scored =>
        LET a == SplitLines(Clean(text_a))
            b == SplitLines(Clean(text_b))
        IN  metrics.diff_density
                = Round4(RatMin(Rat(ChangedTextLines(a, b), Max2(Len(a) + Len(b), 1)), RatOne))

\* the band a reported score falls in
BandOf(score) ==
    IF 10 * score[1] >= 8 * score[2] THEN "Major"
    ELSE IF 10 * score[1] >= 6 * score[2] THEN "Substantial"
    ELSE IF 10 * score[1] >= 4 * score[2] THEN "Moderate"
    ELSE IF 10 * score[1] >= 2 * score[2] THEN "Minor"
    ELSE "Minimal"

\* C30: the change_category of a record is the band in which its reported
\* magnitude_score (rounded to 4 decimals) falls, also when the unrounded
\* magnitude lies just below a band boundary.
C30_CategoryMatchesReportedScore ==
    Scored => metrics.change_category = BandOf(metrics.magnitude_score)

\* ------------------------------------------------------------------------
\* Properties of the tagline comparison
\* ------------------------------------------------------------------------
\* the details of the result that name the key k
DetailsOf(k) ==
    {tl_cmp.tagline_details[i] :
        i \in {j \in 1..Len(tl_cmp.tagline_details) :
                  Len(tl_cmp.tagline_details[j]) >= 2 /\ tl_cmp.tagline_details[j][2] = k}}

\* C22: over the union of the identifiers of A and B, one only in A is
\* reported as removed, one only in B as added, one in both with different
\* text as changed, one in both with equal text is not reported;
\* tagline_changes is the number of identifiers whose entries differ, and 0
\* when both mappings are empty.
C22_TaglineComparison ==
    pc = "taglines_compared" =>
        LET A == DOMAIN tl_a
            B == DOMAIN tl_b
            differing == {k \in A \cup B : k \notin A \/ k \notin B \/ tl_a[k] # tl_b[k]}
        IN  /\ tl_cmp.tagline_changes = Cardinality(differing)
            /\ (A = {} /\ B = {}) => tl_cmp.tagline_changes = 0
            /\ \A k \in A \ B : {d[1] : d \in DetailsOf(k)} = {"Removed"}
            /\ \A k \in B \ A : {d[1] : d \in DetailsOf(k)} = {"Added"}
            /\ \A k \in A \cap B :
                  {d[1] : d \in DetailsOf(k)}
                      = IF tl_a[k] # tl_b[k] THEN {"Changed"} ELSE {}
            /\ \A k \in A \cup B : Cardinality(DetailsOf(k)) <= 1

\* C22 witness: one tagline was changed and another one removed
C22_Witness ==
    /\ pc = "taglines_compared"
    /\ DOMAIN tl_a = {"h1", ".tagline"}
    /\ DOMAIN tl_b = {"h1"}
    /\ tl_a["h1"] # tl_b["h1"]
    /\ tl_cmp.tagline_changes = 2

\* ------------------------------------------------------------------------
\* The diff record of one pair
\* ------------------------------------------------------------------------
\* the lines of a text that do not begin with the [SOURCE] marker
NonSourceLines(text) ==
    SelectSeq(SplitLines(text), LAMBDA line : ~StartsWith(line, SourceMarker))

\* the unified diff of the two compared texts without their [SOURCE] lines
PairDiff ==
    unified_diff(NonSourceLines(text_a), NonSourceLines(text_b), 3)

\* the places of the file headers, hunk headers and context lines of a diff
FramePositions(lines) ==
    {p \in DOMAIN lines : p <= 2 \/ lines[p] = HunkHeader \/ lines[p][1] = " "}

\* the places of the removed and added text lines whose text, stripped, is
\* longer than 5 characters
LongChangePositions(lines) ==
    {p \in DOMAIN lines \ FramePositions(lines) : Len(Strip(Tail(lines[p]))) > 5}

\* the lines at the places P, in their original order
AtPositions(lines, P) ==
    LET kept == SelectSeq([p \in DOMAIN lines |-> p], LAMBDA p : p \in P)
    IN  [i \in DOMAIN kept |-> lines[kept[i]]]

\* C25: the diff excerpt of a record has at most 300 lines, holds every
\* header and context line of the diff in the original order, and holds an
\* added or removed text line only if the text of that line, stripped, is
\* longer than 5 characters, whatever the text of the line starts with.
C25_DiffExcerpt ==
    pc = "compared" =>
        \E kept \in SUBSET LongChangePositions(PairDiff) :
            LET lines == AtPositions(PairDiff, FramePositions(PairDiff) \cup kept)
            IN  record.diff_snippet =
                    JoinLines(SubSeq(lines, 1, Min2(SnippetCap, Len(lines))))

\* C26: two texts that differ only in their [SOURCE] lines have distance 0,
\* character change 0, every keyword delta 0 and a diff without any line.
C26_SourceLinesIgnored ==
    (pc = "compared" /\ NonSourceLines(text_a) = NonSourceLines(text_b)) =>
        /\ record.cosine_distance = Round4(RatZero)
        /\ record.char_change = 0
        /\ \A k \in DOMAIN record.delta : record.delta[k] = 0
        /\ record.diff_snippet = <<>>
        /\ record.diff_density = Round4(RatZero)

\* C26 witness: two texts with different [SOURCE] lines and the same other
\* lines have been compared
C26_Witness ==
    /\ pc = "compared"
    /\ text_a = TextBringBack1
    /\ text_b = TextBringBack2
    /\ record.char_change = 0

\* the number of occurrences of the phrases of category k in the text
CategoryCount(text, k) ==
    SumSeq([n \in 1..Len(KEYWORDS[k]) |->
               Cardinality(PhraseOccurrences(Lower(text), Lower(KEYWORDS[k][n])))])

\* C27: every category of the registry has a delta in the record, the
\* count in the later text minus the count in the earlier text, both
\* without their [SOURCE] lines; comparing the pair the other way round
\* negates every delta.
C27_KeywordDeltas ==
    pc = "compared" =>
        /\ DOMAIN record.delta = DOMAIN KEYWORDS
        /\ \A k \in DOMAIN KEYWORDS :
              /\ record.delta[k] = CategoryCount(JoinLines(NonSourceLines(text_b)), k)
                                   - CategoryCount(JoinLines(NonSourceLines(text_a)), k)
              /\ CompareTexts(text_b, text_a).delta[k] = 0 - record.delta[k]

\* C27 witness: a later text with fewer "de_extinction" phrases and more
\* "climate_benefit" phrases than the earlier one has been compared
C27_Witness ==
    /\ pc = "compared"
    /\ text_a = TextBringBack1
    /\ text_b = TextReviving
    /\ record.delta["de_extinction"] = 0
    /\ record.delta["climate_benefit"] = 1

\* ------------------------------------------------------------------------
\* _normalize_whitespace
\* ------------------------------------------------------------------------
MaxNormLen == 6  \* longest string that is normalised

Blanks == {" ", "\t"}

\* the number of leading characters of s that are in the set cs
RECURSIVE LeadingRun(_, _)
LeadingRun(s, cs) ==
    IF s = <<>> \/ s[1] \notin cs THEN 0 ELSE 1 + LeadingRun(Tail(s), cs)

\* re.sub(r"[ \t]+", " ", text)
RECURSIVE CollapseBlanks(_)
CollapseBlanks(s) ==
    IF s = <<>> THEN <<>>
    ELSE IF s[1] \in Blanks
         THEN <<" ">> \o CollapseBlanks(SubSeq(s, LeadingRun(s, Blanks) + 1, Len(s)))
         ELSE <<s[1]>> \o CollapseBlanks(Tail(s))

\* re.sub(r"\n{3,}", "\n\n", text)
RECURSIVE CapLineBreaks(_)
CapLineBreaks(s) ==
    IF s = <<>> THEN <<>>
    ELSE IF s[1] = "\n"
         THEN LET n == LeadingRun(s, {"\n"})
              IN  (IF n >= 3 THEN <<"\n", "\n">> ELSE SubSeq(s, 1, n))
                      \o CapLineBreaks(SubSeq(s, n + 1, Len(s)))
         ELSE <<s[1]>> \o CapLineBreaks(Tail(s))

\* re.sub(r" *\n *", "\n", text): every match is a line break with the
\* spaces around it, the scan resuming after the match
RECURSIVE DropSpacesAtLineBreaks(_)
DropSpacesAtLineBreaks(s) ==
    IF s = <<>> THEN <<>>
    ELSE LET n == LeadingRun(s, {" "})
         IN  IF n < Len(s) /\ s[n + 1] = "\n"
             THEN LET rest == SubSeq(s, n + 2, Len(s))
                  IN  <<"\n">> \o DropSpacesAtLineBreaks(
                                     SubSeq(rest, LeadingRun(rest, {" "}) + 1, Len(rest)))
             ELSE <<s[1]>> \o DropSpacesAtLineBreaks(Tail(s))

_normalize_whitespace(text) ==
    Strip(DropSpacesAtLineBreaks(CapLineBreaks(CollapseBlanks(text))))

\* the strings over a letter, the blanks and the line break
RECURSIVE NormTexts(_)
NormTexts(n) ==
    IF n = 0 THEN {<<>>}
    ELSE LET shorter == NormTexts(n - 1)
         IN  shorter \cup {t \o <<c>> : t \in shorter, c \in {"a", " ", "\t", "\n"}}

InitNormalize ==
    /\ pc = "idle"
    /\ mode = "all"
    /\ snaps = <<>>
    /\ sampled = <<>>
    /\ resampled = <<>>
    /\ text_a = <<>>
    /\ text_b = <<>>
    /\ dist = <<>>
    /\ index_df = <<>>
    /\ files = <<>>
    /\ diffs_df = <<>>
    /\ changes_df = <<>>
    /\ kw_in = <<>>
    /\ metrics = <<>>
    /\ mag_in = <<>>
    /\ category = ""
    /\ counts = <<>>
    /\ DetailIdle
    /\ ReportIdle
    /\ PipelineIdle

\* _normalize_whitespace(text)
NormalizeWhitespace ==
    /\ pc = "idle"
    /\ \E text \in NormTexts(MaxNormLen) :
          /\ norm_in' = text
          /\ norm_out' = _normalize_whitespace(text)
    /\ pc' = "normalized"
    /\ UNCHANGED <<samplerVars, analyzerVars, text_a, text_b, dist, scoringVars,
                   pipelineVars, tl_a, tl_b, tl_cmp, record, reportVars>>

NextNormalize == NormalizeWhitespace

SpecNormalize == InitNormalize /\ [][NextNormalize]_vars

\* C28: the result of _normalize_whitespace has no two horizontal
\* whitespace characters (space or tab) in a row, no three line breaks in a
\* row, and no line that starts or ends with a space.
C28_NormalizedWhitespace ==
    pc = "normalized" =>
        /\ \A i \in 1..(Len(norm_out) - 1) :
              ~(norm_out[i] \in Blanks /\ norm_out[i + 1] \in Blanks)
        /\ \A i \in 1..(Len(norm_out) - 2) :
              ~(norm_out[i] = "\n" /\ norm_out[i + 1] = "\n" /\ norm_out[i + 2] = "\n")
        /\ \A i \in 1..Len(norm_out) :
              norm_out[i] = " " =>
                  /\ i > 1 /\ norm_out[i - 1] # "\n"
                  /\ i < Len(norm_out) /\ norm_out[i + 1] # "\n"

\* ------------------------------------------------------------------------
\* Reports of the analyzer
\* ------------------------------------------------------------------------
\* C29: when no slug of the index has two snapshots (no diff record), the
\* run completes without an error, both tables are empty, the keyword
\* trend table has one row per snapshot and is written, and the markdown
\* summary is written.
C29_NoPairsStillReported ==
    (Analyzed /\ diffs_df = <<>>) =>
        /\ pc = "analyzed"
        /\ changes_df = <<>>
        /\ Len(trend_df) = Len(index_df)
        /\ reports["keyword_trends.csv"] = "written"
        /\ reports["wayback_changes_summary.md"] = "written"

\* C21: a run of the analyzer that fails leaves no report file of its own
\* next to report files it has not written: after the failure either every
\* report file is of this run or none is.
C21_ReportsAllOrNothing ==
    pc = "KeyError" =>
        \/ \A f \in ReportFiles : reports[f] = "written"
        \/ \A f \in ReportFiles : reports[f] = "absent"

\* the rows of a time series up to row i that are of the slug of row i
SameSlugUpTo(df, i) ==
    SelectSeq(SubSeq(df, 1, i), LAMBDA d : d.slug = df[i].slug)

\* the columns of a time series row that the change it is made of has
ChangeOf(row) == [k \in DOMAIN row \ {"date", "magnitude_rolling_3"} |-> row[k]]

\* C23: the magnitude time series has exactly one row per significant
\* change, and the rolling value of a row is the mean of the magnitude
\* scores of that change and of up to two significant changes of the same
\* slug immediately before it in chronological order; no change of another
\* slug enters it.
C23_RollingMeanPerSlug ==
    pc = "analyzed" =>
        /\ Len(magnitude_df) = Len(changes_df)
        /\ \A c \in Range(changes_df) :
              Occurrences(changes_df, c)
                  = Occurrences([i \in 1..Len(magnitude_df) |-> ChangeOf(magnitude_df[i])], c)
        /\ \A i \in 1..Len(magnitude_df) :
              LET own == SameSlugUpTo(magnitude_df, i)
                  scores == [j \in 1..Len(own) |-> own[j].magnitude_score]
              IN  magnitude_df[i].magnitude_rolling_3
                      = Rolling3(scores, Len(scores))
====
